---- MODULE Spec2Model ----
(***************************************************************************)
(* Olive Young product scraper: the scraping session (OliveYoungScraper),  *)
(* the review harvester (_paginate_and_extract_reviews) and the            *)
(* persistence adapter (save_product_info).                                *)
(*                                                                         *)
(* A state of the model is a state of the program at a suspension point    *)
(* (an await) of the single asyncio flow: the code between two awaits runs *)
(* without interleaving and is one step.                                   *)
(***************************************************************************)
EXTENDS Integers, Sequences, FiniteSets, TLC

\* ------------------------------------------------------------------ bounds
MaxPages == 2
MaxItems == 2
MaxRequested == 3
MaxSiteItems == 3

\* ------------------------------------------------------------- text values
\* Python's None for an Optional[str] field.
None == "<None>"

\* A text is a sequence of characters.  The characters of the rating phrase
\* '5점만점에 4점' are written J (점), M (만), E (에) and " " (space).
J == "J"
M == "M"
E == "E"
SP == " "
ScaleMarker == <<J, M, J, E>>
PhraseRated4 == <<"5", J, M, J, E, SP, "4", J>>
PhraseTwice == <<"5", J, M, J, E, SP, "4", J, M, J, E, "3", J>>
PhraseNoMarker == <<"4", J>>
Phrases == {PhraseRated4, PhraseTwice, PhraseNoMarker}

Min(a, b) == IF a < b THEN a ELSE b

Take(s, n) == SubSeq(s, 1, Min(n, Len(s)))

\* p occurs in s starting at index i.
OccursAt(s, p, i) ==
    /\ i >= 1
    /\ i + Len(p) - 1 <= Len(s)
    /\ SubSeq(s, i, i + Len(p) - 1) = p

\* Python's `p in s` for a non-empty p.
Contains(s, p) == \E i \in 1..Len(s) : OccursAt(s, p, i)

\* First index >= i at which p occurs in s, 0 when there is none.
FindFrom(s, p, i) ==
    LET hits == {k \in i..Len(s) : OccursAt(s, p, k)}
    IN  IF hits = {} THEN 0 ELSE CHOOSE k \in hits : \A h \in hits : k <= h

\* Python's s.split(p)[1] when p occurs in s: the text between the first
\* occurrence of p and the next one (or the end of s).
SplitSecond(s, p) ==
    LET first == FindFrom(s, p, 1)
        from == first + Len(p)
        nxt == FindFrom(s, p, from)
    IN  IF nxt = 0 THEN SubSeq(s, from, Len(s)) ELSE SubSeq(s, from, nxt - 1)

\* Python's s.replace(c, "") for a one-character c.
RemoveChar(s, c) == SelectSeq(s, LAMBDA x : x # c)

RECURSIVE LStrip(_)
LStrip(s) == IF s # <<>> /\ Head(s) = SP THEN LStrip(Tail(s)) ELSE s

RECURSIVE RStrip(_)
RStrip(s) ==
    IF s # <<>> /\ s[Len(s)] = SP THEN RStrip(SubSeq(s, 1, Len(s) - 1)) ELSE s

\* Python's s.strip().
Strip(s) == RStrip(LStrip(s))

\* Mutant: the score is not stripped of the surrounding spaces.
ParseRatingFromText_NoStrip(rating_text) ==
    IF Contains(rating_text, ScaleMarker) /\ Contains(rating_text, <<J>>)
    THEN RemoveChar(SplitSecond(rating_text, ScaleMarker), J)
    ELSE <<>>

\* _parse_rating_from_text: the score after the scale marker, "" otherwise.
ParseRatingFromText(rating_text) ==
    IF Contains(rating_text, ScaleMarker) /\ Contains(rating_text, <<J>>)
    THEN Strip(RemoveChar(SplitSecond(rating_text, ScaleMarker), J))
    ELSE <<>>

\* ------------------------------------------------------------ review pages
\* One <li> of #gdasList: whether its text element (div.txt_inner) and its
\* rating element (span.review_point > span) attach, and what they hold.
ItemRated == [textEl |-> TRUE, text |-> "a", ratingEl |-> TRUE, phrase |-> PhraseRated4]
ItemUnparsed == [textEl |-> TRUE, text |-> "b", ratingEl |-> TRUE, phrase |-> PhraseNoMarker]
ItemPhoto == [textEl |-> FALSE, text |-> "", ratingEl |-> TRUE, phrase |-> PhraseTwice]
ItemNoRating == [textEl |-> TRUE, text |-> "c", ratingEl |-> FALSE, phrase |-> <<>>]
Items == {ItemRated, ItemUnparsed, ItemPhoto, ItemNoRating}

SeqsUpTo(S, n) == UNION {[1..k -> S] : k \in 0..n}

\* A review page: whether #gdasList attaches within its timeout, and its items.
NoListPage == [list |-> FALSE, items |-> <<>>]
Pages == {[list |-> TRUE, items |-> is] : is \in SeqsUpTo(Items, MaxItems)} \cup {NoListPage}

\* The number of review items a sequence of pages lists.
RECURSIVE CountItems(_)
CountItems(pages) ==
    IF pages = <<>> THEN 0
    ELSE Len(Head(pages).items) + CountItems(Tail(pages))

\* A site: the review pages in the order the next-page controls lead through,
\* listing at most MaxSiteItems items in all.
Sites ==
    {s \in UNION {[1..k -> Pages] : k \in 1..MaxPages} : CountItems(s) <= MaxSiteItems}

\* _extract_reviews_from_page, the per-item loop (lines 316-332): an item whose
\* text or rating element does not attach raises inside the item's try and is
\* skipped; otherwise the text and the parsed rating are appended together.
RECURSIVE ExtractItems(_)
ExtractItems(items) ==
    IF items = <<>> THEN [reviews |-> <<>>, ratings |-> <<>>]
    ELSE LET it == Head(items)
             rest == ExtractItems(Tail(items))
         IN  IF it.textEl /\ it.ratingEl
             THEN [reviews |-> <<it.text>> \o rest.reviews,
                   ratings |-> <<ParseRatingFromText(it.phrase)>> \o rest.ratings]
             ELSE rest

\* _extract_reviews_from_page: a list that does not attach raises in the outer
\* try, which returns the two empty lists.
ExtractReviewsFromPage(p) ==
    IF p.list THEN ExtractItems(p.items) ELSE [reviews |-> <<>>, ratings |-> <<>>]

\* Mutant: the rating is appended outside the guard of line 258.
RECURSIVE AccumulatePage_RatingUnguarded(_, _, _, _, _)
AccumulatePage_RatingUnguarded(revs, rats, reviews_on_page, ratings_on_page, maxr) ==
    IF reviews_on_page = <<>> \/ ratings_on_page = <<>>
    THEN [reviews |-> revs, ratings |-> rats]
    ELSE AccumulatePage_RatingUnguarded(
             IF Len(revs) < maxr THEN Append(revs, Head(reviews_on_page)) ELSE revs,
             Append(rats, Head(ratings_on_page)),
             Tail(reviews_on_page), Tail(ratings_on_page), maxr)

\* Mutant: the guard of line 258 is missing, the whole page is appended.
RECURSIVE AccumulatePage_NoLimit(_, _, _, _, _)
AccumulatePage_NoLimit(revs, rats, reviews_on_page, ratings_on_page, maxr) ==
    IF reviews_on_page = <<>> \/ ratings_on_page = <<>>
    THEN [reviews |-> revs, ratings |-> rats]
    ELSE AccumulatePage_NoLimit(Append(revs, Head(reviews_on_page)),
                                Append(rats, Head(ratings_on_page)),
                                Tail(reviews_on_page), Tail(ratings_on_page), maxr)

\* The for/zip loop of _paginate_and_extract_reviews (lines 257-262).
RECURSIVE AccumulatePage(_, _, _, _, _)
AccumulatePage(revs, rats, reviews_on_page, ratings_on_page, maxr) ==
    IF reviews_on_page = <<>> \/ ratings_on_page = <<>>
    THEN [reviews |-> revs, ratings |-> rats]
    ELSE IF Len(revs) < maxr
         THEN AccumulatePage(Append(revs, Head(reviews_on_page)),
                             Append(rats, Head(ratings_on_page)),
                             Tail(reviews_on_page), Tail(ratings_on_page), maxr)
         ELSE [reviews |-> revs, ratings |-> rats]

\* ------------------------------------------------------------------- state
VARIABLES
    playwright,     \* self.playwright: None or the driver object
    browser,        \* self.browser: None or the browser object
    page,           \* self.page: None or the page object
    driverState,    \* the automation driver: "none", "running", "stopped"
    browserState,   \* the browser: "none", "open", "closed"
    pageState,      \* the page: "none", "open", "closed"
    closeLog,       \* the resources released so far, in order
    pc,             \* position of the flow
    caller,         \* where scrape was called from: "new", "body", "after"
    calls,          \* number of scrape calls made
    exc,            \* the exception raised last: "none", "RuntimeError", "Error"
    touched,        \* the current scrape call has issued a page operation
    outcome,        \* how the last scrape call ended: "none", "returned", "raised"
    product,        \* the ProductInfo of the current scrape call
    max_reviews,    \* the max_reviews argument
    site,           \* the review pages of the product
    pageIdx,        \* the review page the browser shows
    control,        \* the next-page control queried last
    all_reviews,    \* accumulator of _paginate_and_extract_reviews
    all_ratings,    \* accumulator of _paginate_and_extract_reviews
    stop,           \* which break ended the pagination loop
    db,             \* the committed content of creait.db
    now,            \* the clock CURRENT_TIMESTAMP reads
    saves,          \* the save_product_info calls made so far
    images,         \* accumulator of _get_detail_images
    patIdx,         \* index of the selector pattern the gallery loop is at
    nDivs,          \* div containers of the current pattern queried so far
    nImgs,          \* image elements of the current pattern read so far
    fed,            \* the URLs resolved from the image elements read so far
    firstPat,       \* the first pattern that yielded an image, 0 when none
    firstYield,     \* the images that pattern yielded
    lastTried,      \* the last pattern attempted, 0 when none
    failed,         \* the steps of the session or scrape call under way that failed
    trail,          \* the stages the current scrape call has entered, in order
    panelRead,      \* the rating panel the distribution was read from, if any
    navLog,         \* the page numbers read and the controls queried for them
    endless,        \* the site has a next control on every page, the last one too
    extractions,    \* page extractions made by _paginate_and_extract_reviews
    cookieStore,    \* cookies.json: whether it exists and what it holds
    jar,            \* the cookies added to the browsing context
    masked,         \* the masking init script is installed on the page
    arg,            \* the arguments of a helper called on its own
    ret,            \* what that call returned
    procs,          \* two scrapers run concurrently: each one's position and data
    files           \* the diagnostic files in the working directory

vars == <<playwright, browser, page, driverState, browserState, pageState,
          closeLog, pc, caller, calls, exc, touched, outcome, product,
          max_reviews, site, pageIdx, control, all_reviews, all_ratings, stop,
          db, now, saves, images, patIdx, nDivs, nImgs, fed, firstPat,
          firstYield, lastTried, failed, trail, panelRead, navLog, endless,
          extractions, cookieStore, jar, masked, arg, ret, procs, files>>

sessionVars == <<playwright, browser, page, driverState, browserState,
                 pageState, closeLog>>
harvestVars == <<pageIdx, control, all_reviews, all_ratings, stop>>
dbVars == <<db, now, saves>>
galleryVars == <<images, patIdx, nDivs, nImgs, fed, firstPat, firstYield, lastTried>>

obsVars == <<failed, trail, panelRead, navLog>>
loopVars == <<endless, extractions>>
setupVars == <<cookieStore, jar, masked>>
helperVars == <<arg, ret>>
pairVars == <<procs, files>>
extraVars == <<loopVars, setupVars, helperVars, pairVars>>

\* _get_detail_images has not started.
GalleryIdle ==
    /\ images = <<>>
    /\ patIdx = 1
    /\ nDivs = 0
    /\ nImgs = 0
    /\ fed = <<>>
    /\ firstPat = 0
    /\ firstYield = <<>>
    /\ lastTried = 0

\* cookies.json does not exist.
NoCookieFile == [exists |-> FALSE, json |-> "list", entries |-> <<>>]

\* No helper is called on its own, no second scraper runs, and the site is a
\* finite one.
ExtrasIdle ==
    /\ endless = FALSE
    /\ extractions = 0
    /\ arg = <<>>
    /\ ret = <<>>
    /\ procs = <<>>
    /\ files = {}

\* init_db on a fresh file: the three tables, empty, and no id handed out.
EmptyDb == [products |-> <<>>, images |-> <<>>, reviews |-> <<>>, lastId |-> 0]

\* ProductInfo.__init__
ProductInfo ==
    [name |-> None, price |-> None, rating |-> None, review_count |-> None,
     detail_images |-> <<>>, review_rating_distribution |-> {},
     reviews |-> <<>>, review_ratings |-> <<>>]

\* No ProductInfo has been constructed by the current call.
NoProduct == [constructed |-> FALSE]

\* The stages of scrape, in the order of its text (lines 195-238).
Stages == <<"name", "price", "rating", "review_count", "gallery",
            "tab", "dist", "sort", "paginate">>

\* --------------------------------------------------------- review harvester
\* Mutant: the loop is entered whatever the maximum.
LoopGuard_Always(revs, maxr) == TRUE

\* The loop condition of _paginate_and_extract_reviews.
LoopGuard(revs, maxr) == Len(revs) < maxr

\* A further review page exists behind the one shown: the query of the next
\* control (lines 283-286) finds one.  An endless site has one on every page.
HasFurtherPage == endless \/ pageIdx < Len(site)

\* The page a click on the next control shows.  Behind its last page an
\* endless site serves its pages over again.
NextPageIdx == IF pageIdx < Len(site) THEN pageIdx + 1 ELSE 1

\* The page numbers the active-page indicator (div.pageing > strong) may show.
PageNumbers == {1, 9, 10, 11, 20}

\* Mutant: the immediate-next control is queried whatever the page number.
ControlFor_AlwaysImmediate(n) == "immediate_next"

\* The control queried for page number n (lines 282-286).
ControlFor(n) == IF n % 10 = 0 THEN "next_block" ELSE "immediate_next"

\* Where a scrape call returns to, and where an exception it raises goes: out
\* of the with block through __aexit__, or to the caller's handler.
ReturnTo(c) == IF c = "new" THEN "c_new" ELSE IF c = "body" THEN "c_body" ELSE "c_after"
RaiseTo(c) == IF c = "new" THEN "c_new" ELSE IF c = "body" THEN "x_1" ELSE "c_after"

\* The except clause of the navigation try (lines 298-300): the exception is
\* logged and the loop is left; nothing propagates.
\* Mutant: the except clause is missing and the exception leaves scrape.
NavigationErrorTo_Propagates(c) == RaiseTo(c)
NavigationErrorTo(c) == "pg_return"

\* Lines 246-250: the accumulators start empty and the loop condition is
\* evaluated for the first time.
PaginateEnter ==
    /\ pc = "pg_enter"
    /\ all_reviews' = <<>>
    /\ all_ratings' = <<>>
    /\ stop' = "none"
    /\ control' = "none"
    /\ pc' = IF LoopGuard(<<>>, max_reviews) THEN "pg_extract" ELSE "pg_return"
    /\ trail' = Append(trail, "paginate")
    /\ navLog' = {}
    /\ extractions' = 0
    /\ UNCHANGED <<endless, setupVars, helperVars, pairVars, failed, panelRead, galleryVars, dbVars, sessionVars, caller, calls, exc, touched, outcome, product,
                   max_reviews, site, pageIdx>>

\* Lines 252-266: extract the page shown, stop on an empty page, append up to
\* the maximum, stop when the maximum is reached.
ExtractAndAppend ==
    /\ pc = "pg_extract"
    /\ LET got == ExtractReviewsFromPage(site[pageIdx])
           acc == AccumulatePage(all_reviews, all_ratings,
                                 got.reviews, got.ratings, max_reviews)
       IN  IF got.reviews = <<>>
           THEN /\ stop' = "empty"
                /\ pc' = "pg_return"
                /\ UNCHANGED <<all_reviews, all_ratings>>
           ELSE /\ all_reviews' = acc.reviews
                /\ all_ratings' = acc.ratings
                /\ IF Len(acc.reviews) >= max_reviews
                   THEN stop' = "limit" /\ pc' = "pg_return"
                   ELSE stop' = stop /\ pc' = "pg_nav"
    /\ extractions' = extractions + 1
    /\ UNCHANGED <<endless, setupVars, helperVars, pairVars, obsVars, galleryVars, dbVars, sessionVars, caller, calls, exc, touched, outcome, product,
                   max_reviews, site, pageIdx, control>>

\* Lines 269-294: read the page number, query the control it selects, click
\* it.  A missing indicator or control breaks the loop; whatever raises (the
\* page number is not a number, the query of the control, the read of its
\* text, the click) is caught at line 298 and breaks it too.  A click that
\* succeeds shows the next page.
Navigate ==
    /\ pc = "pg_nav"
    /\ \E indicator \in BOOLEAN, numeric \in BOOLEAN, n \in PageNumbers,
          queryOk \in BOOLEAN, clickOk \in BOOLEAN :
         IF ~indicator
         THEN /\ stop' = "noIndicator"
              /\ pc' = "pg_return"
              /\ UNCHANGED <<pageIdx, control, exc, navLog>>
         ELSE IF ~numeric
         THEN /\ stop' = "navError"
              /\ pc' = NavigationErrorTo(caller)
              /\ UNCHANGED <<pageIdx, control, exc, navLog>>
         ELSE /\ control' = ControlFor(n)
              /\ navLog' = navLog \cup {[n |-> n, queried |-> {ControlFor(n)}]}
              /\ IF ~queryOk
                 THEN /\ stop' = "navError"
                      /\ pc' = NavigationErrorTo(caller)
                      /\ UNCHANGED <<pageIdx, exc>>
                 ELSE IF ~HasFurtherPage
                 THEN /\ stop' = "lastPage"
                      /\ pc' = "pg_return"
                      /\ UNCHANGED <<pageIdx, exc>>
                 ELSE IF ~clickOk
                 THEN /\ stop' = "navError"
                      /\ pc' = NavigationErrorTo(caller)
                      /\ exc' = exc
                      /\ pageIdx' = pageIdx
                 ELSE /\ pageIdx' = NextPageIdx
                      /\ stop' = stop
                      /\ exc' = exc
                      /\ pc' = "pg_settle"
    /\ UNCHANGED <<extraVars, failed, trail, panelRead, galleryVars, dbVars, sessionVars, caller,
                   calls, touched, outcome, product, max_reviews, site, all_reviews,
                   all_ratings>>

\* Line 296: the wait after the click, with the next page shown.  When it
\* raises the except clause of line 298 breaks the loop; otherwise the loop
\* condition is evaluated again.
SettleAfterClick ==
    /\ pc = "pg_settle"
    /\ \E settleOk \in BOOLEAN :
         IF settleOk
         THEN /\ pc' = IF LoopGuard(all_reviews, max_reviews)
                       THEN "pg_extract" ELSE "pg_return"
              /\ stop' = stop
         ELSE /\ stop' = "navError"
              /\ pc' = NavigationErrorTo(caller)
    /\ UNCHANGED <<extraVars, obsVars, galleryVars, dbVars, sessionVars, caller, calls, exc,
                   touched, outcome, product, max_reviews, site, pageIdx, control,
                   all_reviews, all_ratings>>

\* scrape, line 238: the returned pair is stored into the record.
StoreReviews ==
    /\ pc = "pg_return"
    /\ product' = [product EXCEPT !.reviews = all_reviews,
                                  !.review_ratings = all_ratings]
    /\ pc' = "s_return"
    /\ UNCHANGED <<extraVars, obsVars, galleryVars, dbVars, sessionVars, harvestVars, caller, calls, exc, touched,
                   outcome, max_reviews, site>>

\* scrape, line 244.
ScrapeReturn ==
    /\ pc = "s_return"
    /\ outcome' = "returned"
    /\ pc' = ReturnTo(caller)
    /\ UNCHANGED <<extraVars, obsVars, galleryVars, dbVars, sessionVars, harvestVars, caller, calls, exc, touched,
                   product, max_reviews, site>>

\* The harvester on its own: a scrape that has reached line 238 on an open
\* page, for every site and every requested maximum.
InitHarvest ==
    /\ playwright = "obj" /\ browser = "obj" /\ page = "obj"
    /\ driverState = "running" /\ browserState = "open" /\ pageState = "open"
    /\ closeLog = <<>>
    /\ pc = "pg_enter"
    /\ caller = "body"
    /\ calls = 1
    /\ exc = "none"
    /\ touched = TRUE
    /\ outcome = "none"
    /\ product = ProductInfo
    /\ max_reviews \in 0..MaxRequested
    /\ site \in Sites
    /\ pageIdx = 1
    /\ control = "none"
    /\ all_reviews = <<>>
    /\ all_ratings = <<>>
    /\ stop = "none"
    /\ db = EmptyDb /\ now = 0 /\ saves = <<>>
    /\ GalleryIdle
    /\ failed = {} /\ trail = Take(Stages, 8) /\ panelRead = <<>> /\ navLog = {}
    /\ ExtrasIdle
    /\ cookieStore = NoCookieFile /\ jar = <<>> /\ masked = TRUE

NextHarvest ==
    \/ PaginateEnter
    \/ ExtractAndAppend
    \/ Navigate
    \/ SettleAfterClick
    \/ StoreReviews
    \/ ScrapeReturn

SpecHarvest == InitHarvest /\ [][NextHarvest]_vars

\* The pages an endless site serves round and round: one review a page, a
\* review beside a photo review, and a page of photo reviews only.
EndlessSites ==
    {<<[list |-> TRUE, items |-> <<ItemRated>>]>>,
     <<[list |-> TRUE, items |-> <<ItemRated, ItemPhoto>>]>>,
     <<[list |-> TRUE, items |-> <<ItemPhoto, ItemRated>>],
       [list |-> TRUE, items |-> <<ItemUnparsed>>]>>,
     <<[list |-> TRUE, items |-> <<ItemRated>>],
       [list |-> TRUE, items |-> <<ItemPhoto>>]>>}

\* The harvester on a site that never runs out: every page has a next control
\* and behind the last page the pages come again.  The maximum may be zero or
\* negative.
InitEndless ==
    /\ playwright = "obj" /\ browser = "obj" /\ page = "obj"
    /\ driverState = "running" /\ browserState = "open" /\ pageState = "open"
    /\ closeLog = <<>>
    /\ pc = "pg_enter"
    /\ caller = "body"
    /\ calls = 1
    /\ exc = "none"
    /\ touched = TRUE
    /\ outcome = "none"
    /\ product = ProductInfo
    /\ max_reviews \in -1..MaxRequested
    /\ site \in EndlessSites
    /\ pageIdx = 1
    /\ control = "none"
    /\ all_reviews = <<>>
    /\ all_ratings = <<>>
    /\ stop = "none"
    /\ db = EmptyDb /\ now = 0 /\ saves = <<>>
    /\ GalleryIdle
    /\ failed = {} /\ trail = Take(Stages, 8) /\ panelRead = <<>> /\ navLog = {}
    /\ endless = TRUE
    /\ extractions = 0
    /\ arg = <<>> /\ ret = <<>> /\ procs = <<>> /\ files = {}
    /\ cookieStore = NoCookieFile /\ jar = <<>> /\ masked = TRUE

\* Every step of the harvester is a bounded wait or a computation, so a step
\* that can be taken is taken.
SpecEndless == InitEndless /\ [][NextHarvest]_vars /\ WF_vars(NextHarvest)

\* ----------------------------------------------------------------- scrape
MaxCalls == 2

\* What _get_text does for a selector: the wait times out and raises, or the
\* stripped text of the element ("" for an element without text).
Raises == "<raises>"

\* Mutant: the regular price is tried first.
GetPrice_RegularFirst(discount, regular) ==
    IF regular # Raises /\ regular # "" THEN regular
    ELSE IF discount # Raises /\ discount # "" THEN discount
    ELSE ""

\* _get_price: the discounted price when it is found and not empty, else the
\* regular price when it is found and not empty, else "".
GetPrice(discount, regular) ==
    IF discount # Raises /\ discount # "" THEN discount
    ELSE IF regular # Raises /\ regular # "" THEN regular
    ELSE ""

\* _get_review_rating_distribution, the loop of lines 366-374 from position i:
\* an empty text is left out, a text that cannot be read raises and ends the
\* loop in the outer except, which returns what was read before.
RECURSIVE DistributionFrom(_, _)
DistributionFrom(per, i) ==
    IF i > 5 THEN {}
    ELSE IF per[i] = Raises THEN {}
    ELSE IF per[i] = "" THEN DistributionFrom(per, i + 1)
    ELSE {<<6 - i, per[i]>>} \cup DistributionFrom(per, i + 1)

\* _get_review_rating_distribution: nothing is read when the graph area does
\* not attach.
GetReviewRatingDistribution(panel) ==
    IF panel.area THEN DistributionFrom(panel.per, 1) ELSE {}

\* dict.get on a distribution.
DistGet(dist, k) ==
    IF \E e \in dist : e[1] = k THEN (CHOOSE e \in dist : e[1] = k)[2] ELSE None

\* _get_detail_images as scrape sees it: it raises when the scroll or a
\* diagnostic capture raises, returns [] when the toggle click fails or no
\* pattern finds an image, and the images found otherwise.
GetDetailImages(scrollOk, toggleOk, captureOk, found) ==
    IF ~scrollOk THEN [raised |-> TRUE, images |-> <<>>]
    ELSE IF ~toggleOk THEN [raised |-> ~captureOk, images |-> <<>>]
    ELSE IF found # <<>> THEN [raised |-> FALSE, images |-> found]
    ELSE [raised |-> ~captureOk, images |-> <<>>]

\* Both tiers of _get_price missed: each selector timed out or held no text.
PriceMissed(discount, regular) ==
    discount \in {Raises, ""} /\ regular \in {Raises, ""}

\* The except clause of a scalar field (lines 200, 214, 221): the failure is
\* logged and scrape goes on with the next stage.
\* Mutant: the failure ends the extraction.
FieldErrorTo_Return(next) == "s_return"
FieldErrorTo(next) == next

\* The inputs the pages of a session offer.
NameTexts == {Raises, "", "name"}
PriceTexts == {Raises, "", "price"}
RatingTexts == {Raises, "4.8"}
CountTexts == {Raises, "(12)"}
GalleryFinds == {<<>>, <<"img1", "img2">>}
FullPanel == [area |-> TRUE, per |-> <<"70%", "20%", "5%", "3%", "2%">>]
GapPanel == [area |-> TRUE, per |-> <<"70%", Raises, "5%", "", "2%">>]
NoPanel == [area |-> FALSE, per |-> <<Raises, Raises, Raises, Raises, Raises>>]
Panels == {FullPanel, GapPanel, NoPanel}
SessionSites ==
    {<<[list |-> TRUE, items |-> <<ItemRated, ItemUnparsed>>]>>,
     <<[list |-> TRUE, items |-> <<ItemRated, ItemNoRating>>],
       [list |-> TRUE, items |-> <<ItemUnparsed>>]>>,
     <<NoListPage>>}

\* scrape, line 152: the guard on self.page.
HasActivePage == page # None

\* Where the caller stands when it calls scrape.
CallerAt(at) == IF at = "c_new" THEN "new" ELSE IF at = "c_body" THEN "body" ELSE "after"

\* An exception leaves scrape.
ScrapeRaises(e, c) ==
    /\ exc' = e
    /\ outcome' = "raised"
    /\ pc' = RaiseTo(c)

\* scrape is called (lines 141-155): from before the with block, from inside
\* it, or from after it.  Without a page it raises RuntimeError.
ScrapeCall ==
    /\ pc \in {"c_new", "c_body", "c_after"}
    /\ calls < MaxCalls
    /\ calls' = calls + 1
    /\ caller' = CallerAt(pc)
    /\ touched' = FALSE
    /\ product' = NoProduct
    /\ pageIdx' = pageIdx
    /\ control' = "none"
    /\ all_reviews' = <<>>
    /\ all_ratings' = <<>>
    /\ stop' = "none"
    /\ failed' = {}
    /\ trail' = <<>>
    /\ panelRead' = <<>>
    /\ navLog' = {}
    /\ extractions' = 0
    /\ IF HasActivePage
       THEN exc' = "none" /\ outcome' = "none" /\ pc' = "s_goto"
       ELSE ScrapeRaises("RuntimeError", CallerAt(pc))
    /\ UNCHANGED <<endless, setupVars, helperVars, pairVars, galleryVars, dbVars, sessionVars, max_reviews, site>>

\* Line 158: page.goto, outside every try.  It raises on a closed page.
Goto ==
    /\ pc = "s_goto"
    /\ touched' = TRUE
    /\ \E ok \in BOOLEAN :
         IF ok /\ pageState = "open"
         THEN /\ pc' = "s_challenge"
              /\ pageIdx' = 1
              /\ UNCHANGED <<exc, outcome>>
         ELSE /\ ScrapeRaises("Error", caller)
              /\ pageIdx' = pageIdx
    /\ UNCHANGED <<extraVars, obsVars, galleryVars, dbVars, sessionVars, caller, calls, product, max_reviews, site,
                   control, all_reviews, all_ratings, stop>>

\* Lines 162-176: the wait for the challenge screen; a timeout is caught.
ChallengeWait ==
    /\ pc = "s_challenge"
    /\ \E cleared \in BOOLEAN : pc' = "s_settle"
    /\ UNCHANGED <<extraVars, obsVars, galleryVars, dbVars, sessionVars, harvestVars, caller, calls, exc, touched,
                   outcome, product, max_reviews, site>>

\* Lines 179-193: the settle wait, the pointer moves and the scrolls, outside
\* every try, then the empty record.
Settle ==
    /\ pc = "s_settle"
    /\ \E ok \in BOOLEAN :
         IF ok
         THEN /\ product' = ProductInfo
              /\ pc' = "s_name"
              /\ UNCHANGED <<exc, outcome>>
         ELSE /\ ScrapeRaises("Error", caller)
              /\ product' = product
    /\ UNCHANGED <<extraVars, obsVars, galleryVars, dbVars, sessionVars, harvestVars, caller, calls, touched,
                   max_reviews, site>>

\* Lines 196-201.
GetName ==
    /\ pc = "s_name"
    /\ trail' = Append(trail, "name")
    /\ \E t \in NameTexts :
         IF t = Raises
         THEN /\ product' = product
              /\ failed' = failed \cup {"name"}
              /\ pc' = FieldErrorTo("s_price")
         ELSE /\ product' = [product EXCEPT !.name = t]
              /\ failed' = failed
              /\ pc' = "s_price"
    /\ UNCHANGED <<extraVars, panelRead, navLog, galleryVars, dbVars, sessionVars, harvestVars, caller, calls, exc, touched,
                   outcome, max_reviews, site>>

\* Lines 204-208.
GetPriceField ==
    /\ pc = "s_price"
    /\ trail' = Append(trail, "price")
    /\ \E d \in PriceTexts, r \in PriceTexts :
         /\ product' = [product EXCEPT !.price = GetPrice(d, r)]
         /\ failed' = IF PriceMissed(d, r) THEN failed \cup {"price"} ELSE failed
    /\ pc' = "s_rating"
    /\ UNCHANGED <<extraVars, panelRead, navLog, galleryVars, dbVars, sessionVars, harvestVars, caller, calls, exc, touched,
                   outcome, max_reviews, site>>

\* Lines 211-215.
GetRating ==
    /\ pc = "s_rating"
    /\ trail' = Append(trail, "rating")
    /\ \E t \in RatingTexts :
         IF t = Raises
         THEN /\ product' = product
              /\ failed' = failed \cup {"rating"}
              /\ pc' = FieldErrorTo("s_count")
         ELSE /\ product' = [product EXCEPT !.rating = t]
              /\ failed' = failed
              /\ pc' = "s_count"
    /\ UNCHANGED <<extraVars, panelRead, navLog, galleryVars, dbVars, sessionVars, harvestVars, caller, calls, exc, touched,
                   outcome, max_reviews, site>>

\* Lines 218-222.
GetReviewCount ==
    /\ pc = "s_count"
    /\ trail' = Append(trail, "review_count")
    /\ \E t \in CountTexts :
         IF t = Raises
         THEN /\ product' = product
              /\ failed' = failed \cup {"review_count"}
              /\ pc' = FieldErrorTo("s_gallery")
         ELSE /\ product' = [product EXCEPT !.review_count = t]
              /\ failed' = failed
              /\ pc' = "s_gallery"
    /\ UNCHANGED <<extraVars, panelRead, navLog, galleryVars, dbVars, sessionVars, harvestVars, caller, calls, exc, touched,
                   outcome, max_reviews, site>>

\* Lines 225-229.
GetGallery ==
    /\ pc = "s_gallery"
    /\ \E scrollOk \in BOOLEAN, toggleOk \in BOOLEAN, captureOk \in BOOLEAN,
          found \in GalleryFinds :
         LET got == GetDetailImages(scrollOk, toggleOk, captureOk, found)
         IN  product' = IF got.raised THEN product
                        ELSE [product EXCEPT !.detail_images = got.images]
    /\ pc' = "s_tab"
    /\ trail' = Append(trail, "gallery")
    /\ UNCHANGED <<extraVars, failed, panelRead, navLog, galleryVars, dbVars, sessionVars,
                   harvestVars, caller, calls, exc, touched, outcome, max_reviews,
                   site>>

\* The except clause of the review stage (lines 241-244): what raises inside
\* the stage is logged and scrape goes on to return the record.
\* Mutant: the stage is started again from the tab click.
ReviewErrorTo_RetryTab == "s_tab"
ReviewErrorTo == "s_return"

\* Line 233, _click_review_tab: a failed click is caught and a screenshot is
\* taken; a screenshot that raises leaves the review stage (line 241).
ClickReviewTab ==
    /\ pc = "s_tab"
    /\ trail' = Append(trail, "tab")
    /\ \E clickOk \in BOOLEAN, captureOk \in BOOLEAN :
         /\ pc' = IF clickOk \/ captureOk THEN "s_dist" ELSE ReviewErrorTo
         /\ failed' = IF clickOk THEN failed ELSE failed \cup {"tab"}
    /\ UNCHANGED <<extraVars, panelRead, navLog, galleryVars, dbVars, sessionVars, harvestVars, caller, calls, exc, touched,
                   outcome, product, max_reviews, site>>

\* Line 234.
GetDistribution ==
    /\ pc = "s_dist"
    /\ trail' = Append(trail, "dist")
    /\ \E panel \in Panels :
         /\ product' = [product EXCEPT !.review_rating_distribution =
                                           GetReviewRatingDistribution(panel)]
         /\ panelRead' = <<panel>>
    /\ pc' = "s_sort"
    /\ UNCHANGED <<extraVars, failed, navLog, galleryVars, dbVars, sessionVars, harvestVars, caller, calls, exc, touched,
                   outcome, max_reviews, site>>

\* Line 235, _sort_reviews_by_helpfulness: as for the tab click.
SortReviews ==
    /\ pc = "s_sort"
    /\ trail' = Append(trail, "sort")
    /\ \E clickOk \in BOOLEAN, captureOk \in BOOLEAN :
         /\ pc' = IF clickOk \/ captureOk THEN "pg_enter" ELSE ReviewErrorTo
         /\ failed' = IF clickOk THEN failed ELSE failed \cup {"sort"}
    /\ UNCHANGED <<extraVars, panelRead, navLog, galleryVars, dbVars, sessionVars, harvestVars, caller, calls, exc, touched,
                   outcome, product, max_reviews, site>>

\* ---------------------------------------------------------------- session
callVars == <<caller, calls, touched, outcome, product, max_reviews, site>>

\* __aenter__ raised: the with statement does not call __aexit__.
EnterFails ==
    /\ exc' = "Error"
    /\ pc' = "c_after"

\* Line 50: async_playwright().start().
StartDriver ==
    /\ pc = "c_new"
    /\ \E ok \in BOOLEAN :
         IF ok
         THEN /\ playwright' = "obj"
              /\ driverState' = "running"
              /\ pc' = "e_launch"
              /\ exc' = exc
         ELSE /\ EnterFails
              /\ UNCHANGED <<playwright, driverState>>
    /\ UNCHANGED <<extraVars, obsVars, galleryVars, dbVars, browser, page, browserState, pageState, closeLog,
                   harvestVars, callVars>>

\* Lines 53-65: chromium.launch.
LaunchBrowser ==
    /\ pc = "e_launch"
    /\ \E ok \in BOOLEAN :
         IF ok
         THEN /\ browser' = "obj"
              /\ browserState' = "open"
              /\ pc' = "e_page"
              /\ exc' = exc
         ELSE /\ EnterFails
              /\ UNCHANGED <<browser, browserState>>
    /\ UNCHANGED <<extraVars, obsVars, galleryVars, dbVars, playwright, page, driverState, pageState, closeLog,
                   harvestVars, callVars>>

\* Lines 68-90: new_context, then new_page.
NewPage ==
    /\ pc = "e_page"
    /\ \E ok \in BOOLEAN :
         IF ok
         THEN /\ page' = "obj"
              /\ pageState' = "open"
              /\ pc' = "e_cookies"
              /\ exc' = exc
         ELSE /\ EnterFails
              /\ UNCHANGED <<page, pageState>>
    /\ UNCHANGED <<extraVars, obsVars, galleryVars, dbVars, playwright, browser, driverState, browserState, closeLog,
                   harvestVars, callVars>>

\* A key that an entry of cookies.json, or a cookie handed to the browser,
\* does not have.
Missing == "<missing>"

\* Mutant: a value the table does not know is passed on as it is.
SameSiteMap_NoDefault(v) ==
    IF v = "no_restriction" THEN "None"
    ELSE IF v = "lax" THEN "Lax"
    ELSE IF v = "strict" THEN "Strict"
    ELSE v

\* same_site_map.get(cookie['sameSite'], 'Lax') (lines 597-602).
SameSiteMap(v) ==
    IF v = "no_restriction" THEN "None"
    ELSE IF v = "lax" THEN "Lax"
    ELSE IF v = "strict" THEN "Strict"
    ELSE "Lax"

\* cookie['name'], cookie['value'] and cookie['domain'] (lines 585-587) raise
\* KeyError on an entry that lacks the key.
HasRequiredKeys(c) == c.name # Missing /\ c.value # Missing /\ c.domain # Missing

\* Lines 584-602: the cookie built from one entry.  The optional keys are
\* copied when the entry has them; sameSite is set only when the entry has
\* one other than 'unspecified'.
PlaywrightCookie(c) ==
    [name |-> c.name, value |-> c.value, domain |-> c.domain,
     path |-> IF c.path = Missing THEN "/" ELSE c.path,
     expires |-> c.expirationDate,
     httpOnly |-> c.httpOnly,
     secure |-> c.secure,
     sameSite |-> IF c.sameSite # Missing /\ c.sameSite # "unspecified"
                  THEN SameSiteMap(c.sameSite) ELSE Missing]

\* The loop of lines 583-604: the list built from the entries, or the KeyError
\* of the first entry that lacks a required key.
RECURSIVE ConvertEntries(_)
ConvertEntries(entries) ==
    IF entries = <<>> THEN [raised |-> FALSE, cookies |-> <<>>]
    ELSE IF ~HasRequiredKeys(Head(entries)) THEN [raised |-> TRUE, cookies |-> <<>>]
    ELSE LET rest == ConvertEntries(Tail(entries))
         IN  IF rest.raised THEN rest
             ELSE [raised |-> FALSE,
                   cookies |-> <<PlaywrightCookie(Head(entries))>> \o rest.cookies]

\* Lines 567-604 up to the call of add_cookies: nothing to add when the file
\* is missing; json.load raises on a file that is not JSON; a list nested in
\* a list is unwrapped.
PrepareCookies(store) ==
    IF ~store.exists THEN [called |-> FALSE, cookies |-> <<>>]
    ELSE IF store.json = "invalid" THEN [called |-> FALSE, cookies |-> <<>>]
    ELSE LET built == ConvertEntries(store.entries)
         IN  [called |-> ~built.raised, cookies |-> built.cookies]

\* Line 93, _load_cookies: the cookies built from cookies.json are added to
\* the context in one call of add_cookies.  Everything that raises on the way
\* is caught by the except clause of line 619 and nothing is added.
LoadCookies ==
    /\ pc = "e_cookies"
    /\ LET prepared == PrepareCookies(cookieStore)
       IN  \E addOk \in BOOLEAN :
             /\ jar' = IF prepared.called /\ addOk THEN jar \o prepared.cookies ELSE jar
             /\ failed' = IF prepared.called /\ ~addOk
                           THEN failed \cup {"add_cookies"} ELSE failed
    /\ pc' = "e_stealth"
    /\ UNCHANGED <<loopVars, helperVars, pairVars, cookieStore, masked, trail, panelRead,
                   navLog, galleryVars, dbVars, sessionVars, harvestVars, callVars, exc>>

\* Lines 96-130: the stealth patches and the init script.
ApplyStealth ==
    /\ pc = "e_stealth"
    /\ \E ok \in BOOLEAN :
         IF ok THEN pc' = "c_body" /\ exc' = exc /\ masked' = TRUE
         ELSE EnterFails /\ masked' = masked
    /\ UNCHANGED <<loopVars, helperVars, pairVars, cookieStore, jar, obsVars, galleryVars,
                   dbVars, sessionVars, harvestVars, callVars>>

\* The with block of the caller is left normally: __aexit__ runs.
ExitBlock ==
    /\ pc = "c_body"
    /\ pc' = "x_1"
    /\ UNCHANGED <<extraVars, obsVars, galleryVars, dbVars, sessionVars, harvestVars, callVars, exc>>

\* __aexit__ releases in this order (lines 134-139).
AExitOrder_BrowserFirst == <<"browser", "page", "driver">>
AExitOrder == <<"page", "browser", "driver">>

ExitPc == <<"x_1", "x_2", "x_3", "c_after">>

Held(r) ==
    IF r = "page" THEN page # None
    ELSE IF r = "browser" THEN browser # None
    ELSE playwright # None

\* The k-th release of __aexit__: skipped when the attribute is None; a close
\* that raises leaves __aexit__ at once.
Release(k) ==
    /\ pc = ExitPc[k]
    /\ LET r == AExitOrder[k]
       IN  \E ok \in BOOLEAN :
             IF ~Held(r)
             THEN /\ pc' = ExitPc[k + 1]
                  /\ UNCHANGED <<pageState, browserState, driverState,
                                 closeLog, exc>>
             ELSE IF ok
             THEN /\ pageState' = IF r = "page" THEN "closed" ELSE pageState
                  /\ browserState' = IF r = "browser" THEN "closed" ELSE browserState
                  /\ driverState' = IF r = "driver" THEN "stopped" ELSE driverState
                  /\ closeLog' = Append(closeLog, r)
                  /\ pc' = ExitPc[k + 1]
                  /\ exc' = exc
             ELSE /\ exc' = "Error"
                  /\ pc' = "c_after"
                  /\ UNCHANGED <<pageState, browserState, driverState, closeLog>>
    /\ UNCHANGED <<extraVars, obsVars, galleryVars, dbVars, playwright, browser, page, harvestVars, callVars>>

\* The caller is done with the scraper.
Finish ==
    /\ pc \in {"c_new", "c_after"}
    /\ pc' = "c_end"
    /\ UNCHANGED <<extraVars, obsVars, galleryVars, dbVars, sessionVars, harvestVars, callVars, exc>>

Init ==
    /\ playwright = None /\ browser = None /\ page = None
    /\ driverState = "none" /\ browserState = "none" /\ pageState = "none"
    /\ closeLog = <<>>
    /\ pc = "c_new"
    /\ caller = "new"
    /\ calls = 0
    /\ exc = "none"
    /\ touched = FALSE
    /\ outcome = "none"
    /\ product = NoProduct
    /\ max_reviews \in {1, MaxRequested}
    /\ site \in SessionSites
    /\ pageIdx = 1
    /\ control = "none"
    /\ all_reviews = <<>>
    /\ all_ratings = <<>>
    /\ stop = "none"
    /\ db = EmptyDb /\ now = 0 /\ saves = <<>>
    /\ GalleryIdle
    /\ failed = {} /\ trail = <<>> /\ panelRead = <<>> /\ navLog = {}
    /\ ExtrasIdle
    /\ cookieStore = NoCookieFile /\ jar = <<>> /\ masked = FALSE

Next ==
    \/ StartDriver
    \/ LaunchBrowser
    \/ NewPage
    \/ LoadCookies
    \/ ApplyStealth
    \/ ScrapeCall
    \/ Goto
    \/ ChallengeWait
    \/ Settle
    \/ GetName
    \/ GetPriceField
    \/ GetRating
    \/ GetReviewCount
    \/ GetGallery
    \/ ClickReviewTab
    \/ GetDistribution
    \/ SortReviews
    \/ PaginateEnter
    \/ ExtractAndAppend
    \/ Navigate
    \/ SettleAfterClick
    \/ StoreReviews
    \/ ScrapeReturn
    \/ ExitBlock
    \/ \E k \in 1..3 : Release(k)
    \/ Finish

Spec == Init /\ [][Next]_vars

\* ---------------------------------------------------------------- cookies
MaxCookies == 2

\* An entry of cookies.json with the required keys only.
BareEntry ==
    [name |-> "_cfuvid", value |-> "v1", domain |-> ".oliveyoung.co.kr",
     path |-> Missing, expirationDate |-> Missing, httpOnly |-> Missing,
     secure |-> Missing, sameSite |-> Missing]

\* An entry with every key the loader reads.
FullEntry ==
    [name |-> "cf_clearance", value |-> "v2", domain |-> ".oliveyoung.co.kr",
     path |-> "/store", expirationDate |-> "1767225600", httpOnly |-> "true",
     secure |-> "true", sameSite |-> "lax"]

\* The sameSite values an export may carry: the three the table knows,
\* 'unspecified', and one it does not know.
SameSiteValues == {"no_restriction", "lax", "strict", "unspecified", "none"}

\* The entries a cookie file may hold: well-formed ones, with and without a
\* sameSite, and entries that lack a required key.
CookieEntries ==
    {BareEntry, FullEntry}
    \cup {[BareEntry EXCEPT !.sameSite = s] : s \in SameSiteValues}
    \cup {[FullEntry EXCEPT !.name = Missing], [BareEntry EXCEPT !.value = Missing],
          [FullEntry EXCEPT !.domain = Missing]}

\* cookies.json: missing, not JSON, a list of entries, or such a list nested
\* in a list (the EditThisCookie export).
CookieStores ==
    {NoCookieFile, [exists |-> TRUE, json |-> "invalid", entries |-> <<>>]}
    \cup {[exists |-> TRUE, json |-> j, entries |-> es] :
              j \in {"list", "nested"}, es \in SeqsUpTo(CookieEntries, MaxCookies)}

\* __aenter__ from line 93 on: the page exists, the cookies are loaded and the
\* masking is applied, for every cookie file.
InitCookies ==
    /\ playwright = "obj" /\ browser = "obj" /\ page = "obj"
    /\ driverState = "running" /\ browserState = "open" /\ pageState = "open"
    /\ closeLog = <<>>
    /\ pc = "e_cookies"
    /\ caller = "new"
    /\ calls = 0
    /\ exc = "none"
    /\ touched = FALSE
    /\ outcome = "none"
    /\ product = NoProduct
    /\ max_reviews = 1
    /\ site = <<NoListPage>>
    /\ pageIdx = 1
    /\ control = "none"
    /\ all_reviews = <<>>
    /\ all_ratings = <<>>
    /\ stop = "none"
    /\ db = EmptyDb /\ now = 0 /\ saves = <<>>
    /\ GalleryIdle
    /\ failed = {} /\ trail = <<>> /\ panelRead = <<>> /\ navLog = {}
    /\ ExtrasIdle
    /\ cookieStore \in CookieStores
    /\ jar = <<>>
    /\ masked = FALSE

NextCookies ==
    \/ LoadCookies
    \/ ApplyStealth

SpecCookies == InitCookies /\ [][NextCookies]_vars

\* The cookie files of a whole session: none, one with two well-formed
\* entries, one with an entry that lacks its name before a well-formed one.
SessionStores ==
    {NoCookieFile,
     [exists |-> TRUE, json |-> "list", entries |-> <<FullEntry, BareEntry>>],
     [exists |-> TRUE, json |-> "list",
      entries |-> <<[FullEntry EXCEPT !.name = Missing], BareEntry>>]}

\* A whole session, from construction, with a cookie file beside it and a
\* product with one review and a second review page that does not load.
InitSetup ==
    /\ playwright = None /\ browser = None /\ page = None
    /\ driverState = "none" /\ browserState = "none" /\ pageState = "none"
    /\ closeLog = <<>>
    /\ pc = "c_new"
    /\ caller = "new"
    /\ calls = 0
    /\ exc = "none"
    /\ touched = FALSE
    /\ outcome = "none"
    /\ product = NoProduct
    /\ max_reviews = MaxRequested
    /\ site = <<[list |-> TRUE, items |-> <<ItemRated>>], NoListPage>>
    /\ pageIdx = 1
    /\ control = "none"
    /\ all_reviews = <<>>
    /\ all_ratings = <<>>
    /\ stop = "none"
    /\ db = EmptyDb /\ now = 0 /\ saves = <<>>
    /\ GalleryIdle
    /\ failed = {} /\ trail = <<>> /\ panelRead = <<>> /\ navLog = {}
    /\ ExtrasIdle
    /\ cookieStore \in SessionStores
    /\ jar = <<>>
    /\ masked = FALSE

SpecSetup == InitSetup /\ [][Next]_vars

\* ------------------------------------------------------------ persistence
MaxSaves == 2

\* The product row stored for a URL (url is UNIQUE), as a sequence of 0 or 1.
RowsFor(d, url) == SelectSeq(d.products, LAMBDA r : r.url = url)

\* The columns both the UPDATE (lines 86-94) and the INSERT (lines 97-112)
\* write from the record.
RowOf(id, url, info, t) ==
    [id |-> id, url |-> url,
     name |-> info.name, price |-> info.price, rating |-> info.rating,
     review_count |-> info.review_count,
     dist |-> [k \in 1..5 |-> DistGet(info.review_rating_distribution, 6 - k)],
     scraped_at |-> t]

\* Mutant: the old image rows are not deleted.
DeleteImages_KeepsRows(d, pid) == d

\* Line 83: DELETE FROM product_images WHERE product_id = ?
DeleteImages(d, pid) ==
    [d EXCEPT !.images = SelectSeq(d.images, LAMBDA r : r.product_id # pid)]

\* Line 84: DELETE FROM product_reviews WHERE product_id = ?
DeleteReviews(d, pid) ==
    [d EXCEPT !.reviews = SelectSeq(d.reviews, LAMBDA r : r.product_id # pid)]

\* Lines 86-94: UPDATE products SET ... WHERE id = ?
UpdateProduct(d, pid, url, info, t) ==
    [d EXCEPT !.products =
        [i \in 1..Len(d.products) |->
            IF d.products[i].id = pid THEN RowOf(pid, url, info, t)
            ELSE d.products[i]]]

\* Lines 97-113: INSERT INTO products; AUTOINCREMENT hands out the next id.
InsertProduct(d, pid, url, info, t) ==
    [d EXCEPT !.products = Append(d.products, RowOf(pid, url, info, t)),
              !.lastId = pid]

\* Lines 116-118: executemany INSERT INTO product_images.
InsertImages(d, pid, imgs) ==
    [d EXCEPT !.images = d.images \o
        [i \in 1..Len(imgs) |-> [product_id |-> pid, image_url |-> imgs[i]]]]

\* Lines 121-123: executemany INSERT INTO product_reviews.
InsertReviews(d, pid, revs) ==
    [d EXCEPT !.reviews = d.reviews \o
        [i \in 1..Len(revs) |-> [product_id |-> pid, review_text |-> revs[i]]]]

\* The points of save_product_info that can raise.
FailPoints == {"none", "connect", "select", "delete_images", "delete_reviews",
               "write_product", "insert_images", "insert_reviews", "commit"}

\* The statements one call executes, in order (lines 71-125).
Statements(exists, info) ==
    <<"connect", "select">>
    \o (IF exists THEN <<"delete_images", "delete_reviews">> ELSE <<>>)
    \o <<"write_product">>
    \o (IF info.detail_images # <<>> THEN <<"insert_images">> ELSE <<>>)
    \o (IF info.reviews # <<>> THEN <<"insert_reviews">> ELSE <<>>)
    \o <<"commit">>

\* One statement on the connection's working copy.
Execute(stmt, d, exists, pid, url, info, t) ==
    IF stmt = "delete_images" THEN DeleteImages(d, pid)
    ELSE IF stmt = "delete_reviews" THEN DeleteReviews(d, pid)
    ELSE IF stmt = "write_product"
         THEN IF exists THEN UpdateProduct(d, pid, url, info, t)
              ELSE InsertProduct(d, pid, url, info, t)
    ELSE IF stmt = "insert_images" THEN InsertImages(d, pid, info.detail_images)
    ELSE IF stmt = "insert_reviews" THEN InsertReviews(d, pid, info.reviews)
    ELSE d

\* The try block of save_product_info: statements run on the working copy
\* until one raises.
RECURSIVE RunStatements(_, _, _, _, _, _, _, _)
RunStatements(stmts, d, exists, pid, url, info, t, fail) ==
    IF stmts = <<>> THEN [db |-> d, raised |-> FALSE]
    ELSE IF Head(stmts) = fail THEN [db |-> d, raised |-> TRUE]
    ELSE RunStatements(Tail(stmts),
                       Execute(Head(stmts), d, exists, pid, url, info, t),
                       exists, pid, url, info, t, fail)

\* Mutant: a record is also refused when its price is missing.
Refused_PriceToo(info) ==
    \/ info = NoProduct
    \/ info.name \in {None, ""}
    \/ info.price \in {None, ""}

\* Line 65: `not product_info or not product_info.name`.
Refused(info) == info = NoProduct \/ info.name \in {None, ""}

\* A statement of the call raises.
Faulty(d, url, info, fail) ==
    /\ ~Refused(info)
    /\ \E i \in DOMAIN Statements(RowsFor(d, url) # <<>>, info) :
          Statements(RowsFor(d, url) # <<>>, info)[i] = fail

\* Mutant: the except clause leaves what the statements did in place.
Rollback_KeepsWorking(committed, working) == working

\* Lines 128-131: con.rollback() discards the working copy of the open
\* transaction; the committed content is what it was before the call.
Rollback(committed, working) == committed

\* save_product_info: the committed content after the call.  A refused
\* record returns at once; an exception rolls the working copy back.
SaveProductInfo(d, info, url, t, fail) ==
    IF Refused(info) THEN d
    ELSE LET found == RowsFor(d, url)
             exists == found # <<>>
             pid == IF exists THEN found[1].id ELSE d.lastId + 1
             run == RunStatements(Statements(exists, info), d, exists, pid,
                                  url, info, t, fail)
         IN  IF run.raised THEN Rollback(d, run.db) ELSE run.db

\* Records scrape hands to save_product_info.
RecFull ==
    [name |-> "name", price |-> "price", rating |-> "4.8",
     review_count |-> "(12)", detail_images |-> <<"img1", "img2">>,
     review_rating_distribution |-> GetReviewRatingDistribution(FullPanel),
     reviews |-> <<"a", "b">>, review_ratings |-> <<<<"4">>, <<>>>>]
RecOther ==
    [name |-> "other", price |-> "", rating |-> None,
     review_count |-> "(3)", detail_images |-> <<"img2", "img3">>,
     review_rating_distribution |-> GetReviewRatingDistribution(GapPanel),
     reviews |-> <<"b">>, review_ratings |-> <<<<>>>>]
RecNameOnly == [ProductInfo EXCEPT !.name = "name"]
RecNoName == [RecFull EXCEPT !.name = None]
RecEmptyName == [RecOther EXCEPT !.name = ""]
DbRecords == {RecFull, RecOther, RecNameOnly, RecNoName, RecEmptyName}
Urls == {"url1", "url2"}

\* main, line 34: one save_product_info call.
Save ==
    /\ pc = "db"
    /\ Len(saves) < MaxSaves
    /\ \E info \in DbRecords, url \in Urls, fail \in FailPoints :
         /\ db' = SaveProductInfo(db, info, url, now + 1, fail)
         /\ saves' = Append(saves, [url |-> url, info |-> info, fail |-> fail,
                                    faulty |-> Faulty(db, url, info, fail)])
    /\ now' = now + 1
    /\ UNCHANGED <<extraVars, obsVars, galleryVars, sessionVars, harvestVars, callVars, pc, exc>>

\* The persistence adapter on its own: saves into a database init_db created.
InitDb ==
    /\ playwright = None /\ browser = None /\ page = None
    /\ driverState = "none" /\ browserState = "none" /\ pageState = "none"
    /\ closeLog = <<>>
    /\ pc = "db"
    /\ caller = "body"
    /\ calls = 0
    /\ exc = "none"
    /\ touched = FALSE
    /\ outcome = "none"
    /\ product = NoProduct
    /\ max_reviews = 0
    /\ site = <<NoListPage>>
    /\ pageIdx = 1
    /\ control = "none"
    /\ all_reviews = <<>>
    /\ all_ratings = <<>>
    /\ stop = "none"
    /\ db = EmptyDb /\ now = 0 /\ saves = <<>>
    /\ GalleryIdle
    /\ failed = {} /\ trail = <<>> /\ panelRead = <<>> /\ navLog = {}
    /\ ExtrasIdle
    /\ cookieStore = NoCookieFile /\ jar = <<>> /\ masked = FALSE

NextDb == Save

SpecDb == InitDb /\ [][NextDb]_vars

\* ------------------------------------------------------------ review stage
\* The review stage on its own: a scrape that has reached line 233 on an open
\* page.
InitReview ==
    /\ playwright = "obj" /\ browser = "obj" /\ page = "obj"
    /\ driverState = "running" /\ browserState = "open" /\ pageState = "open"
    /\ closeLog = <<>>
    /\ pc = "s_tab"
    /\ caller = "body"
    /\ calls = 1
    /\ exc = "none"
    /\ touched = TRUE
    /\ outcome = "none"
    /\ product = ProductInfo
    /\ max_reviews \in {1, MaxRequested}
    /\ site \in SessionSites
    /\ pageIdx = 1
    /\ control = "none"
    /\ all_reviews = <<>>
    /\ all_ratings = <<>>
    /\ stop = "none"
    /\ db = EmptyDb /\ now = 0 /\ saves = <<>>
    /\ GalleryIdle
    /\ failed = {} /\ trail = Take(Stages, 5) /\ panelRead = <<>> /\ navLog = {}
    /\ ExtrasIdle
    /\ cookieStore = NoCookieFile /\ jar = <<>> /\ masked = TRUE

NextReview ==
    \/ ClickReviewTab
    \/ GetDistribution
    \/ SortReviews
    \/ PaginateEnter
    \/ ExtractAndAppend
    \/ Navigate
    \/ SettleAfterClick
    \/ StoreReviews
    \/ ScrapeReturn

\* Every await of the stage completes or times out, so the flow always takes
\* its next step.
SpecReview == InitReview /\ [][NextReview]_vars /\ WF_vars(NextReview)

\* ----------------------------------------------------------------- gallery
MaxDivs == 2
MaxImgs == 2

\* A URL or an attribute value is a sequence of text pieces; "http" is a piece
\* of its own so that `"http" in src` can be evaluated.  The empty sequence
\* stands for None, the value of a missing attribute; the text "" is written
\* as one empty piece.
NoSrc == <<>>
EmptyText == <<"">>
AttrRaises == <<"<raises>">>
UrlA == <<"http", "s://image.oliveyoung.co.kr/a.jpg">>
UrlB == <<"http", "s://image.oliveyoung.co.kr/b.jpg">>
Placeholder == <<"/pc-static-root/image/blank.gif">>

\* The truth value of an attribute value: None and "" are false.
Truthy(src) == src # NoSrc /\ src # EmptyText

\* Mutant: every value that is not empty is accepted.
HasHttp_AnyText(src) == Truthy(src)

\* `src and "http" in src`
HasHttp(src) == Truthy(src) /\ Contains(src, <<"http">>)

\* _extract_image_src from the i-th attribute on: the first attribute, in the
\* order src, data-src, data-original, data-lazy, that holds "http"; None when
\* there is none or when reading an attribute raises.
RECURSIVE ResolveFrom(_, _)
ResolveFrom(attrs, i) ==
    IF attrs[i] = AttrRaises THEN NoSrc
    ELSE IF HasHttp(attrs[i]) THEN attrs[i]
    ELSE IF i = Len(attrs) THEN NoSrc
    ELSE ResolveFrom(attrs, i + 1)

\* _extract_image_src
ExtractImageSrc(img) ==
    ResolveFrom(<<img.src, img.data_src, img.data_original, img.data_lazy>>, 1)

\* The image elements a detail area holds.
ImgA == [src |-> UrlA, data_src |-> NoSrc, data_original |-> NoSrc, data_lazy |-> NoSrc]
ImgALazy == [src |-> Placeholder, data_src |-> UrlA, data_original |-> NoSrc, data_lazy |-> NoSrc]
ImgB == [src |-> NoSrc, data_src |-> NoSrc, data_original |-> Placeholder, data_lazy |-> UrlB]
ImgNone == [src |-> Placeholder, data_src |-> NoSrc, data_original |-> NoSrc, data_lazy |-> NoSrc]
ImgBroken == [src |-> AttrRaises, data_src |-> UrlB, data_original |-> NoSrc, data_lazy |-> NoSrc]
Imgs == {ImgA, ImgALazy, ImgB, ImgNone, ImgBroken}

\* `src in images`
InSeq(x, s) == \E i \in 1..Len(s) : s[i] = x

\* Mutant: the membership test is missing.
CollectImg_NoDedup(imgs, src) == IF src # NoSrc THEN Append(imgs, src) ELSE imgs

\* Lines 511-512 and 522-523: `if src and src not in images: images.append(src)`
CollectImg(imgs, src) ==
    IF src # NoSrc /\ ~InSeq(src, imgs) THEN Append(imgs, src) ELSE imgs

\* selector_patterns (lines 472-486).  A selector is written as its pieces, the
\* piece " > div" on its own.
SelectorPatterns ==
    <<[container |-> "#tempHtml2 > center",
       selector |-> <<"#tempHtml2 > center", " > div", ":nth-child(1)", " > img:nth-child(1)">>],
      [container |-> "#tempHtml2 > center",
       selector |-> <<"#tempHtml2 > center", " > div", " img">>],
      [container |-> "#tempHtml2 > center",
       selector |-> <<"#tempHtml2 > center", " img">>],
      [container |-> "#tempHtml2", selector |-> <<"#tempHtml2", " > div">>],
      [container |-> "#tempHtml2", selector |-> <<"#tempHtml2", " img">>],
      [container |-> "#tempHtml", selector |-> <<"#tempHtml", " > div">>],
      [container |-> "#tempHtml", selector |-> <<"#tempHtml", " img">>],
      [container |-> ".detail_info_wrap", selector |-> <<".detail_info_wrap", " img">>],
      [container |-> ".prd_detail_info", selector |-> <<".prd_detail_info", " img">>],
      [container |-> ".goods_detail_wrap", selector |-> <<".goods_detail_wrap", " img">>]>>

\* Line 501: `" > div" in img_selector`
DivBased(selector) == Contains(selector, <<" > div">>)

\* The selector ends in an img step: the elements it matches are images, which
\* have no descendants for query_selector_all("img") to find.
MatchesImgs(selector) ==
    selector[Len(selector)] \in {" img", " > img:nth-child(1)"}

\* Lines 535-546: after the loop, diagnostics are written when nothing was found.
AfterLoop(imgs) == IF imgs # <<>> THEN "g_return" ELSE "g_diag"

\* `continue`, or the end of a pattern that left the list empty: the next
\* pattern, or the end of the loop after the last one.
ContinueAt(k, imgs) ==
    IF k < Len(SelectorPatterns) THEN "g_pattern" ELSE AfterLoop(imgs)

\* Lines 527-529: `if images: break`
PatternEnd(k, imgs) == IF imgs # <<>> THEN "g_return" ELSE ContinueAt(k, imgs)

\* Mutant: a toggle that cannot be clicked is ignored.
AfterToggle_GoesOn(toggleOk) == "g_pattern"

\* Lines 453-465: after the toggle click the patterns are tried; the except
\* clause of a failed click leaves _get_detail_images.
AfterToggle(toggleOk) == IF toggleOk THEN "g_pattern" ELSE "s_tab"

\* Lines 449-465: the scroll (outside every try), then the toggle click; a
\* failed click takes a screenshot and returns [].  What raises here leaves
\* _get_detail_images and is caught by scrape (line 228), which leaves
\* detail_images as it was.
GalleryEnter ==
    /\ pc = "g_enter"
    /\ images' = <<>>
    /\ patIdx' = 1
    /\ nDivs' = 0
    /\ nImgs' = 0
    /\ fed' = <<>>
    /\ firstPat' = 0
    /\ firstYield' = <<>>
    /\ lastTried' = 0
    /\ trail' = Append(trail, "gallery")
    /\ \E scrollOk \in BOOLEAN, toggleOk \in BOOLEAN, captureOk \in BOOLEAN :
         /\ pc' = IF scrollOk THEN AfterToggle(toggleOk) ELSE "s_tab"
         /\ product' = IF scrollOk /\ ~toggleOk /\ captureOk
                       THEN [product EXCEPT !.detail_images = <<>>]
                       ELSE product
         /\ failed' = IF scrollOk /\ ~toggleOk THEN failed \cup {"toggle"} ELSE failed
    /\ UNCHANGED <<extraVars, panelRead, navLog, dbVars, sessionVars, harvestVars, caller, calls, exc, touched,
                   outcome, max_reviews, site>>

\* Lines 488-498: a pattern is attempted; its container is looked up.  A
\* missing container and a lookup that raises both go on to the next pattern.
PatternContainer ==
    /\ pc = "g_pattern"
    /\ lastTried' = patIdx
    /\ nDivs' = 0
    /\ nImgs' = 0
    /\ \E c \in {"present", "missing", "raises"} :
         IF c = "present"
         THEN pc' = "g_query" /\ patIdx' = patIdx
         ELSE pc' = ContinueAt(patIdx, images) /\ patIdx' = patIdx + 1
    /\ UNCHANGED <<extraVars, obsVars, dbVars, sessionVars, harvestVars, callVars, exc, images, fed,
                   firstPat, firstYield>>

\* Lines 501-503 and 517-518: the pattern's selector is queried.
PatternQuery ==
    /\ pc = "g_query"
    /\ \E ok \in BOOLEAN :
         IF ok
         THEN /\ pc' = IF DivBased(SelectorPatterns[patIdx].selector)
                       THEN "g_div" ELSE "g_img"
              /\ patIdx' = patIdx
         ELSE /\ pc' = ContinueAt(patIdx, images)
              /\ patIdx' = patIdx + 1
    /\ UNCHANGED <<extraVars, obsVars, dbVars, sessionVars, harvestVars, callVars, exc, images, nDivs,
                   nImgs, fed, firstPat, firstYield, lastTried>>

\* Lines 505-507: the next element of a div pattern is asked for its images.
\* The query may raise: the except clause of line 531 goes on to the next
\* pattern and `images` keeps what was appended.
DivQuery ==
    /\ pc = "g_div"
    /\ \E more \in BOOLEAN, ok \in BOOLEAN :
         IF ~more \/ nDivs = MaxDivs
         THEN /\ pc' = PatternEnd(patIdx, images)
              /\ patIdx' = IF images # <<>> THEN patIdx ELSE patIdx + 1
              /\ nDivs' = nDivs
         ELSE /\ nDivs' = nDivs + 1
              /\ IF ~ok
                 THEN pc' = ContinueAt(patIdx, images) /\ patIdx' = patIdx + 1
                 ELSE /\ patIdx' = patIdx
                      /\ pc' = IF MatchesImgs(SelectorPatterns[patIdx].selector)
                               THEN "g_div" ELSE "g_img"
    /\ UNCHANGED <<extraVars, obsVars, dbVars, sessionVars, harvestVars, callVars, exc, images, nImgs,
                   fed, firstPat, firstYield, lastTried>>

\* Lines 509-513 and 520-524: the next image element is resolved and appended
\* unless its URL is missing or already listed.
ImgExtract ==
    /\ pc = "g_img"
    /\ \E more \in BOOLEAN, img \in Imgs :
         IF ~more \/ nImgs = MaxImgs
         THEN /\ IF DivBased(SelectorPatterns[patIdx].selector)
                 THEN pc' = "g_div" /\ patIdx' = patIdx
                 ELSE /\ pc' = PatternEnd(patIdx, images)
                      /\ patIdx' = IF images # <<>> THEN patIdx ELSE patIdx + 1
              /\ UNCHANGED <<images, nImgs, fed, firstPat, firstYield>>
         ELSE LET src == ExtractImageSrc(img)
                  first == IF firstPat = 0 /\ src # NoSrc THEN patIdx ELSE firstPat
              IN  /\ images' = CollectImg(images, src)
                  /\ nImgs' = nImgs + 1
                  /\ fed' = IF src # NoSrc THEN Append(fed, src) ELSE fed
                  /\ firstPat' = first
                  /\ firstYield' = IF first = patIdx THEN CollectImg(firstYield, src)
                                   ELSE firstYield
                  /\ UNCHANGED <<pc, patIdx>>
    /\ UNCHANGED <<extraVars, obsVars, dbVars, sessionVars, harvestVars, callVars, exc, nDivs, lastTried>>

\* Lines 537-544: no pattern found an image; the screenshot and the page
\* source are written, outside every try of _get_detail_images.
GalleryDiagnostics ==
    /\ pc = "g_diag"
    /\ \E ok \in BOOLEAN : pc' = IF ok THEN "g_return" ELSE "s_tab"
    /\ UNCHANGED <<extraVars, obsVars, galleryVars, dbVars, sessionVars, harvestVars, callVars, exc>>

\* Line 546, and line 226 of scrape: the list is returned and stored.
GalleryReturn ==
    /\ pc = "g_return"
    /\ product' = [product EXCEPT !.detail_images = images]
    /\ pc' = "s_tab"
    /\ UNCHANGED <<extraVars, obsVars, galleryVars, dbVars, sessionVars, harvestVars, caller, calls, exc,
                   touched, outcome, max_reviews, site>>

\* ------------------------------------------------------------------ helpers
\* What a lookup of the discounted price and of the regular price may give:
\* the wait times out, the element has no text, or it has one.
DiscountOutcomes == {Raises, "", "9,900"}
RegularOutcomes == {Raises, "", "12,000"}

\* What an attribute of an image element may hold: nothing (None), the empty
\* text, a relative path, an absolute URL that names the attribute.
AttrValues(name) ==
    {NoSrc, EmptyText, Placeholder, <<"http", "s://image.oliveyoung.co.kr/", name>>}

\* Every image element over these values.
AttrImgs ==
    [src : AttrValues("src"), data_src : AttrValues("data-src"),
     data_original : AttrValues("data-original"), data_lazy : AttrValues("data-lazy")]

\* _get_price is called with the two lookups behaving as arg says.
CallGetPrice ==
    /\ pc = "h_price"
    /\ ret' = GetPrice(arg[1], arg[2])
    /\ pc' = "h_price_done"
    /\ UNCHANGED <<loopVars, setupVars, pairVars, arg, obsVars, galleryVars, dbVars,
                   sessionVars, harvestVars, callVars, exc>>

\* _extract_image_src is called on the image element arg.
CallExtractImageSrc ==
    /\ pc = "h_image"
    /\ ret' = ExtractImageSrc(arg)
    /\ pc' = "h_image_done"
    /\ UNCHANGED <<loopVars, setupVars, pairVars, arg, obsVars, galleryVars, dbVars,
                   sessionVars, harvestVars, callVars, exc>>

\* The two helpers called on their own, on an open page, for every outcome of
\* the lookups they make.
InitHelper ==
    /\ playwright = "obj" /\ browser = "obj" /\ page = "obj"
    /\ driverState = "running" /\ browserState = "open" /\ pageState = "open"
    /\ closeLog = <<>>
    /\ \/ pc = "h_price" /\ arg \in DiscountOutcomes \X RegularOutcomes
       \/ pc = "h_image" /\ arg \in AttrImgs
    /\ ret = <<>>
    /\ caller = "body"
    /\ calls = 1
    /\ exc = "none"
    /\ touched = TRUE
    /\ outcome = "none"
    /\ product = ProductInfo
    /\ max_reviews = 1
    /\ site = <<NoListPage>>
    /\ pageIdx = 1
    /\ control = "none"
    /\ all_reviews = <<>>
    /\ all_ratings = <<>>
    /\ stop = "none"
    /\ db = EmptyDb /\ now = 0 /\ saves = <<>>
    /\ GalleryIdle
    /\ failed = {} /\ trail = <<>> /\ panelRead = <<>> /\ navLog = {}
    /\ endless = FALSE /\ extractions = 0
    /\ procs = <<>> /\ files = {}
    /\ cookieStore = NoCookieFile /\ jar = <<>> /\ masked = TRUE

NextHelper ==
    \/ CallGetPrice
    \/ CallExtractImageSrc

SpecHelper == InitHelper /\ [][NextHelper]_vars

\* ------------------------------------------------------ concurrent sessions
\* Two scrapers, each with its own browser and page, scrape different URLs in
\* one process and one working directory.  Each is followed through the
\* sub-steps that write a diagnostic file when they fail.
Scrapers == {1, 2}

\* The diagnostic files, by the sub-step that writes them (lines 463, 540,
\* 542, 395 and 355).  The paths are literals, relative to the working
\* directory.
DiagnosticPaths ==
    {"debug_screenshot.png", "debug_screenshot_detail_img.png",
     "debug_page_source_detail_img.html", "debug_screenshot_review_click_fail.png",
     "debug_screenshot_sort_fail.png"}

\* The product page scraper p has open.
PageOf(p) == IF p = 1 THEN "url1" ELSE "url2"

\* Scraper p moves to position next.
MoveTo(p, next) == procs' = [procs EXCEPT ![p].at = next]

\* page.screenshot(path=...): the file at path is replaced by a capture of
\* the page of scraper p, which goes on at nextOk; a screenshot that raises
\* writes nothing and goes on at nextRaise.
Capture(p, path, nextOk, nextRaise) ==
    \E ok \in BOOLEAN :
        IF ok
        THEN /\ files' = [files EXCEPT ![path] = PageOf(p)]
             /\ procs' = [procs EXCEPT ![p].at = nextOk,
                                       ![p].wrote = procs[p].wrote \cup {path}]
        ELSE /\ files' = files
             /\ MoveTo(p, nextRaise)

\* What no step of a concurrent scraper touches.
pairFrame ==
    <<loopVars, setupVars, helperVars, obsVars, galleryVars, dbVars, sessionVars,
      harvestVars, callVars, exc, pc>>

\* Lines 453-459: the toggle click of _get_detail_images.
PairToggle(p) ==
    /\ procs[p].at = "toggle"
    /\ \E ok \in BOOLEAN : MoveTo(p, IF ok THEN "patterns" ELSE "toggle_shot")
    /\ UNCHANGED <<files, pairFrame>>

\* Lines 460-465: the screenshot after a failed toggle click.
PairToggleShot(p) ==
    /\ procs[p].at = "toggle_shot"
    /\ Capture(p, "debug_screenshot.png", "tab", "tab")
    /\ UNCHANGED pairFrame

\* Lines 468-535: the selector patterns find images of the page, or none.
PairPatterns(p) ==
    /\ procs[p].at = "patterns"
    /\ \E found \in BOOLEAN :
         procs' = [procs EXCEPT
                       ![p].at = IF found THEN "tab" ELSE "diag_shot",
                       ![p].detail_images = IF found THEN <<PageOf(p)>> ELSE <<>>]
    /\ UNCHANGED <<files, pairFrame>>

\* Line 540: the screenshot when no image was found.
PairDiagShot(p) ==
    /\ procs[p].at = "diag_shot"
    /\ Capture(p, "debug_screenshot_detail_img.png", "diag_source", "tab")
    /\ UNCHANGED pairFrame

\* Lines 541-543: page.content(), open(path, "w") and the write of the page
\* source.  When page.content() or open raises the file is left as it was.
\* open truncates the file, so a write that raises leaves it empty (a source
\* utf-8 cannot encode, a file size limit of 0) or holding only a beginning
\* of the page source of scraper p (a file size limit or a full disk reached
\* part-way).  The exception is caught in scrape (line 228), which goes on
\* at the review tab.
PairDiagSource(p) ==
    LET path == "debug_page_source_detail_img.html"
        beginning == IF p = 1 THEN "url1 cut short" ELSE "url2 cut short"
    IN  /\ procs[p].at = "diag_source"
        /\ \E opened \in BOOLEAN, written \in {"all", "part", "nothing"} :
             IF ~opened
             THEN /\ files' = files
                  /\ MoveTo(p, "tab")
             ELSE IF written = "nothing"
             THEN /\ files' = [files EXCEPT ![path] = "empty"]
                  /\ MoveTo(p, "tab")
             ELSE IF written = "part"
             THEN /\ files' = [files EXCEPT ![path] = beginning]
                  /\ MoveTo(p, "tab")
             ELSE /\ files' = [files EXCEPT ![path] = PageOf(p)]
                  /\ procs' = [procs EXCEPT ![p].at = "tab",
                                            ![p].wrote = procs[p].wrote \cup {path}]
        /\ UNCHANGED pairFrame

\* Lines 383-391: the click on the review tab.
PairTab(p) ==
    /\ procs[p].at = "tab"
    /\ \E ok \in BOOLEAN : MoveTo(p, IF ok THEN "sort" ELSE "tab_shot")
    /\ UNCHANGED <<files, pairFrame>>

\* Lines 392-396: the screenshot after a failed tab click; when it raises the
\* review stage is left.
PairTabShot(p) ==
    /\ procs[p].at = "tab_shot"
    /\ Capture(p, "debug_screenshot_review_click_fail.png", "sort", "done")
    /\ UNCHANGED pairFrame

\* Lines 343-351: the click on the helpfulness sort.
PairSort(p) ==
    /\ procs[p].at = "sort"
    /\ \E ok \in BOOLEAN : MoveTo(p, IF ok THEN "done" ELSE "sort_shot")
    /\ UNCHANGED <<files, pairFrame>>

\* Lines 352-356: the screenshot after a failed sort.
PairSortShot(p) ==
    /\ procs[p].at = "sort_shot"
    /\ Capture(p, "debug_screenshot_sort_fail.png", "done", "done")
    /\ UNCHANGED pairFrame

\* Both scrapers stand before the gallery, each on its own open page; no
\* diagnostic file exists.
InitPair ==
    /\ playwright = "obj" /\ browser = "obj" /\ page = "obj"
    /\ driverState = "running" /\ browserState = "open" /\ pageState = "open"
    /\ closeLog = <<>>
    /\ pc = "pair"
    /\ caller = "body"
    /\ calls = 1
    /\ exc = "none"
    /\ touched = TRUE
    /\ outcome = "none"
    /\ product = ProductInfo
    /\ max_reviews = 1
    /\ site = <<NoListPage>>
    /\ pageIdx = 1
    /\ control = "none"
    /\ all_reviews = <<>>
    /\ all_ratings = <<>>
    /\ stop = "none"
    /\ db = EmptyDb /\ now = 0 /\ saves = <<>>
    /\ GalleryIdle
    /\ failed = {} /\ trail = <<>> /\ panelRead = <<>> /\ navLog = {}
    /\ endless = FALSE /\ extractions = 0
    /\ arg = <<>> /\ ret = <<>>
    /\ cookieStore = NoCookieFile /\ jar = <<>> /\ masked = TRUE
    /\ procs = [p \in Scrapers |-> [at |-> "toggle", detail_images |-> <<>>, wrote |-> {}]]
    /\ files = [f \in DiagnosticPaths |-> "none"]

\* The event loop runs one step of either scraper at a time.
NextPair ==
    \E p \in Scrapers :
        \/ PairToggle(p)
        \/ PairToggleShot(p)
        \/ PairPatterns(p)
        \/ PairDiagShot(p)
        \/ PairDiagSource(p)
        \/ PairTab(p)
        \/ PairTabShot(p)
        \/ PairSort(p)
        \/ PairSortShot(p)

SpecPair == InitPair /\ [][NextPair]_vars

\* The gallery extractor on its own: a scrape that has reached line 226 on an
\* open page.
InitGallery ==
    /\ playwright = "obj" /\ browser = "obj" /\ page = "obj"
    /\ driverState = "running" /\ browserState = "open" /\ pageState = "open"
    /\ closeLog = <<>>
    /\ pc = "g_enter"
    /\ caller = "body"
    /\ calls = 1
    /\ exc = "none"
    /\ touched = TRUE
    /\ outcome = "none"
    /\ product = ProductInfo
    /\ max_reviews = 0
    /\ site = <<NoListPage>>
    /\ pageIdx = 1
    /\ control = "none"
    /\ all_reviews = <<>>
    /\ all_ratings = <<>>
    /\ stop = "none"
    /\ db = EmptyDb /\ now = 0 /\ saves = <<>>
    /\ GalleryIdle
    /\ failed = {} /\ trail = Take(Stages, 4) /\ panelRead = <<>> /\ navLog = {}
    /\ ExtrasIdle
    /\ cookieStore = NoCookieFile /\ jar = <<>> /\ masked = TRUE

NextGallery ==
    \/ GalleryEnter
    \/ PatternContainer
    \/ PatternQuery
    \/ DivQuery
    \/ ImgExtract
    \/ GalleryDiagnostics
    \/ GalleryReturn

SpecGallery == InitGallery /\ [][NextGallery]_vars

\* ------------------------------------------------- claims on the harvester
\* The pairs the pages 1..k of the site yield, in page and item order.
RECURSIVE VisibleUpTo(_)
VisibleUpTo(k) ==
    IF k = 0 THEN [reviews |-> <<>>, ratings |-> <<>>]
    ELSE LET before == VisibleUpTo(k - 1)
             here == ExtractReviewsFromPage(site[k])
         IN  [reviews |-> before.reviews \o here.reviews,
              ratings |-> before.ratings \o here.ratings]

\* The harvest result has been stored into the record.
Stored == pc = "s_return" \/ outcome = "returned"

\* C1: at every state of the harvest the accumulated review texts and the
\* accumulated ratings have the same length, in the accumulators of the
\* pagination loop and in the record the result is stored into.
C1_ReviewsAlignedWithRatings ==
    /\ Len(all_reviews) = Len(all_ratings)
    /\ product # NoProduct => Len(product.reviews) = Len(product.review_ratings)

\* C1 witness: a stored result that was cut at the maximum in the middle of
\* a page and holds an unparsed (empty) rating.
C1_Witness ==
    /\ Stored
    /\ stop = "limit"
    /\ Len(product.reviews) = 1
    /\ Len(VisibleUpTo(extractions).reviews) > 1
    /\ product.review_ratings = <<<<>>>>

\* C2: the accumulator, and the result stored from it, never hold more than
\* the requested maximum number of reviews.
C2_NeverMoreThanMaximum ==
    /\ Len(all_reviews) <= max_reviews
    /\ product # NoProduct => Len(product.reviews) <= max_reviews

\* C2 witness: the pages extracted hold more reviews than the maximum
\* admits, and the loop has stopped at the maximum.
C2_Witness ==
    /\ pc = "pg_return"
    /\ stop = "limit"
    /\ max_reviews >= 1
    /\ Len(VisibleUpTo(extractions).reviews) > max_reviews
    /\ Len(all_reviews) = max_reviews

MissStops == {"empty", "noIndicator", "lastPage", "navError"}

\* C3: once a pagination miss (empty page, no active-page indicator, no next
\* control, exception while navigating) has happened below the maximum, the
\* loop is over, no exception is in flight, and the accumulators, and the
\* returned result, are exactly the pairs of the pages extracted so far; the
\* page shown is the last one extracted, or the one after it when the wait
\* that follows the click raised.
C3_MissEndsLoopWithPartialResult ==
    stop \in MissStops =>
        /\ pc \in {"pg_return", "s_return", "c_body"}
        /\ exc = "none"
        /\ Len(all_reviews) < max_reviews
        /\ all_reviews = VisibleUpTo(extractions).reviews
        /\ all_ratings = VisibleUpTo(extractions).ratings
        /\ pageIdx \in {extractions, extractions + 1}
        /\ pageIdx = extractions + 1 => stop = "navError"
        /\ pc = "c_body" =>
              /\ outcome = "returned"
              /\ product.reviews = all_reviews
              /\ product.review_ratings = all_ratings

\* C3 witness: the click on the next control succeeded on the first page
\* after reviews were accumulated, the wait that follows it raised with the
\* second page shown, and scrape returned the reviews of the first page.
C3_Witness ==
    /\ stop = "navError"
    /\ outcome = "returned"
    /\ extractions = 1
    /\ pageIdx = 2
    /\ control # "none"
    /\ product.reviews # <<>>
    /\ product.reviews = VisibleUpTo(1).reviews
    /\ ExtractReviewsFromPage(site[2]).reviews # <<>>

\* C4: when the review list attaches on every page and no navigation fault
\* happens, the returned list is the first min(maximum, N) of the N pairs
\* visible on all the pages of the site, in page and item order.
C4_ReturnsAllVisibleUpToMaximum ==
    (/\ outcome = "returned"
     /\ stop \notin {"noIndicator", "navError"}
     /\ \A k \in 1..Len(site) : site[k].list) =>
        /\ product.reviews = Take(VisibleUpTo(Len(site)).reviews, max_reviews)
        /\ product.review_ratings = Take(VisibleUpTo(Len(site)).ratings, max_reviews)

\* --------------------------------------------------- claims on the session
\* A scrape call has just ended by raising.
JustRaised == outcome = "raised" /\ pc = RaiseTo(caller)

\* C5: a scrape call on an acquired, open page never ends by raising, and a
\* call that returns hands back a record.
C5_ScrapeOnOpenPageReturnsRecord ==
    /\ (JustRaised /\ caller = "body") => pageState # "open"
    /\ outcome = "returned" => product # NoProduct

\* C6: when the caller is done, no started driver, browser or page is left
\* unreleased.
C6_AllReleasedAtEnd ==
    pc = "c_end" =>
        /\ driverState # "running"
        /\ browserState # "open"
        /\ pageState # "open"

IsPrefix(s, t) == Len(s) <= Len(t) /\ s = SubSeq(t, 1, Len(s))

\* C7: the resources are released in the order page, browser, driver: the
\* browser is never closed before the page, the driver never stopped before
\* the browser.
C7_ReleaseOrder ==
    /\ IsPrefix(closeLog, <<"page", "browser", "driver">>)
    /\ browserState = "closed" => pageState = "closed"
    /\ driverState = "stopped" => browserState = "closed"

\* C7 witness: scrape raised inside the with block and all three resources
\* were released.
C7_Witness ==
    /\ caller = "body"
    /\ outcome = "raised"
    /\ closeLog = <<"page", "browser", "driver">>
    /\ driverState = "stopped"

\* C8: a call that holds no active page fails with the usage error before any
\* page operation and before a record exists, so a call that is past the
\* guard holds an open page; and the usage error is raised only without an
\* active page.
C8_UsageErrorIffNoActivePage ==
    /\ pc = "s_goto" => pageState = "open"
    /\ (JustRaised /\ exc = "RuntimeError") =>
          (pageState # "open" /\ ~touched /\ product = NoProduct)

\* ----------------------------------------------- claims on the persistence
\* The image URLs and the review texts stored for product id pid, in order.
ImagesOf(d, pid) ==
    LET rows == SelectSeq(d.images, LAMBDA r : r.product_id = pid)
    IN  [i \in 1..Len(rows) |-> rows[i].image_url]
ReviewsOf(d, pid) ==
    LET rows == SelectSeq(d.reviews, LAMBDA r : r.product_id = pid)
    IN  [i \in 1..Len(rows) |-> rows[i].review_text]

\* The database holds exactly one row for the URL, carrying the record's
\* scalar fields and distribution, with exactly the record's images and
\* reviews as its dependent rows.
HoldsExactly(d, url, info) ==
    /\ Len(RowsFor(d, url)) = 1
    /\ LET row == RowsFor(d, url)[1]
       IN  /\ row.name = info.name
           /\ row.price = info.price
           /\ row.rating = info.rating
           /\ row.review_count = info.review_count
           /\ \A k \in 1..5 :
                 row.dist[k] = DistGet(info.review_rating_distribution, 6 - k)
           /\ ImagesOf(d, row.id) = info.detail_images
           /\ ReviewsOf(d, row.id) = info.reviews

LastSave == saves[Len(saves)]

\* The record carries a non-empty name.
Named(info) == info.name # None /\ info.name # ""

\* The last call saved a URL that an earlier call saved with another record,
\* and no statement of either call raised.
SavedTwice ==
    /\ Len(saves) >= 2
    /\ ~LastSave.faulty
    /\ \E i \in 1..(Len(saves) - 1) :
          /\ saves[i].url = LastSave.url
          /\ saves[i].info # LastSave.info
          /\ ~saves[i].faulty

\* C9 as stated: after the same URL was saved twice with different records,
\* the database holds exactly one row for it, with the second record's values
\* and exactly the second record's images and reviews.
C9_SecondSaveReplaces ==
    SavedTwice => HoldsExactly(db, LastSave.url, LastSave.info)

\* C9 amended: the same, when the second record has a non-empty name.
C9_SecondNamedSaveReplaces ==
    (SavedTwice /\ Named(LastSave.info)) =>
        HoldsExactly(db, LastSave.url, LastSave.info)

\* C9 witness: a URL saved with the full record and then with another one
\* that shares an image with it.
C9_Witness ==
    /\ Len(saves) = 2
    /\ saves[1] = [url |-> "url1", info |-> RecFull, fail |-> "none", faulty |-> FALSE]
    /\ saves[2] = [url |-> "url1", info |-> RecOther, fail |-> "none", faulty |-> FALSE]
    /\ Len(db.products) = 1
    /\ ImagesOf(db, 1) = <<"img2", "img3">>

\* C10 as stated: after a save that met no database error, the database
\* holds a row for the URL carrying the record's fields, images and reviews,
\* whatever fields the record lacks.
C10_EveryRecordStored ==
    (saves # <<>> /\ ~LastSave.faulty) =>
        HoldsExactly(db, LastSave.url, LastSave.info)

\* C10 amended: that holds for every record whose name is non-empty, whatever
\* other fields it lacks; and no row without a name is ever stored.
C10_EveryNamedRecordStored ==
    /\ (saves # <<>> /\ ~LastSave.faulty /\ Named(LastSave.info)) =>
          HoldsExactly(db, LastSave.url, LastSave.info)
    /\ \A i \in 1..Len(db.products) : db.products[i].name \notin {None, ""}

\* C10 witness: a record with nothing but its name was stored.
C10_Witness ==
    /\ saves # <<>>
    /\ LastSave.info = RecNameOnly
    /\ ~LastSave.faulty
    /\ RowsFor(db, LastSave.url)[1].price = None
    /\ ImagesOf(db, RowsFor(db, LastSave.url)[1].id) = <<>>

\* C11: a save_product_info call in which a statement raises commits nothing:
\* after it the product row of the URL and every image and review row are
\* what they were before the call, so no state with the old dependent rows
\* deleted and the new ones missing is ever committed.
C11_FailedSaveCommitsNothing ==
    [][(Len(saves') = Len(saves) + 1 /\ saves'[Len(saves')].faulty) =>
          /\ RowsFor(db', saves'[Len(saves')].url) = RowsFor(db, saves'[Len(saves')].url)
          /\ db'.images = db.images
          /\ db'.reviews = db.reviews
          /\ db'.products = db.products]_vars

\* C11 witness: a URL stored with images and reviews was saved again with
\* another record, a statement after the two deletes raised, and the rows of
\* the first record are all in place.
C11_Witness ==
    /\ Len(saves) = 2
    /\ saves[1] = [url |-> "url1", info |-> RecFull, fail |-> "none", faulty |-> FALSE]
    /\ saves[2].url = "url1"
    /\ saves[2].info = RecOther
    /\ saves[2].faulty
    /\ saves[2].fail \in {"write_product", "insert_images", "insert_reviews", "commit"}
    /\ HoldsExactly(db, "url1", RecFull)

\* --------------------------------------------------- claims on the gallery
\* First-occurrence deduplication of a sequence.
RECURSIVE Dedup(_)
Dedup(s) ==
    IF s = <<>> THEN <<>>
    ELSE LET front == Dedup(SubSeq(s, 1, Len(s) - 1))
         IN  IF InSeq(s[Len(s)], front) THEN front ELSE Append(front, s[Len(s)])

\* C12: when the pattern loop is over, the list returned is exactly the
\* images of the first pattern that yielded an image, and no pattern after
\* that one was attempted; it is empty when no pattern yielded an image.
C12_ResultIsFirstYieldingPattern ==
    pc = "g_return" =>
        IF firstPat = 0 THEN images = <<>>
        ELSE images = firstYield /\ lastTried = firstPat

\* C13: the gallery list never holds a URL twice and is, at every step, the
\* resolved URLs of the image elements read so far with every repetition
\* dropped and the first occurrences in discovery order; the list stored
\* into the record is such a list.
C13_NoDuplicatesInDiscoveryOrder ==
    /\ images = Dedup(fed)
    /\ \A i, j \in 1..Len(images) : images[i] = images[j] => i = j
    /\ (product # NoProduct /\ pc = "s_tab" /\ product.detail_images # <<>>) =>
          product.detail_images = Dedup(fed)

\* C13 witness: the elements read resolved to a, b and a again (the same URL
\* behind different attributes or patterns) and the record lists a, b.
C13_Witness ==
    /\ pc = "s_tab"
    /\ fed = <<UrlA, UrlB, UrlA>>
    /\ product.detail_images = <<UrlA, UrlB>>

\* C23: when the detail toggle is not found or cannot be clicked within its
\* timeout, the gallery extraction is given up: no selector pattern is
\* attempted, the record's image list is empty, and scrape goes on to the
\* review stage.
C23_ToggleFailureAbortsGallery ==
    "toggle" \in failed =>
        /\ pc = "s_tab"
        /\ lastTried = 0
        /\ images = <<>>
        /\ product.detail_images = <<>>
        /\ outcome = "none" /\ exc = "none"

\* The toggle click failed and scrape stands at the review tab.
C23_Witness ==
    /\ "toggle" \in failed
    /\ trail = Take(Stages, 5)
    /\ pc = "s_tab"
    /\ product.detail_images = <<>>

\* ---------------------------------------------------- claims on the stages
ScalarFields == {"name", "price", "rating", "review_count"}

FieldOf(info, f) ==
    IF f = "name" THEN info.name
    ELSE IF f = "price" THEN info.price
    ELSE IF f = "rating" THEN info.rating
    ELSE info.review_count

\* The scrape call has returned its record.
Returned == outcome = "returned" /\ product # NoProduct

\* Every stage up to the review tab was entered, in the order of the text.
AllStagesAttempted == Len(trail) >= 6 /\ Take(trail, 6) = Take(Stages, 6)

\* C14 as stated: a scalar field whose lookup failed is unset in the record,
\* and whatever failed, the later fields, the gallery and the review stage
\* were all attempted in the fixed order when scrape returns.
C14_FieldFailureLeavesUnset ==
    /\ product # NoProduct =>
          \A f \in failed \cap ScalarFields : FieldOf(product, f) = None
    /\ Returned => AllStagesAttempted

\* C14 amended: that holds with the price as the exception: a price neither
\* tier resolves is set to the empty text, not left unset.
C14_FieldFailureIsolated ==
    /\ product # NoProduct =>
          /\ \A f \in failed \cap (ScalarFields \ {"price"}) : FieldOf(product, f) = None
          /\ "price" \in failed => product.price = ""
    /\ Returned => AllStagesAttempted
    /\ IsPrefix(trail, Stages)

\* C14 witness: all four scalar lookups failed and scrape returned a record
\* whose review stage ran.
C14_Witness ==
    /\ Returned
    /\ failed \cap ScalarFields = ScalarFields
    /\ product.name = None
    /\ product.price = ""
    /\ trail = Stages
    /\ product.reviews # <<>>

\* C15: a scrape call in which the review-tab click failed does not raise and
\* returns a record without reviews and without review ratings.
C15_TabFailureLeavesReviewsEmpty ==
    "tab" \in failed =>
        /\ outcome # "raised"
        /\ Returned => (product.reviews = <<>> /\ product.review_ratings = <<>>)

\* The distribution the panel read by the call shows: for every position
\* whose percentage can be read, the star value 6 - i with its text.
ShownDistribution ==
    IF panelRead = <<>> \/ ~panelRead[1].area THEN {}
    ELSE {<<6 - i, panelRead[1].per[i]>> :
             i \in {k \in 1..5 : panelRead[1].per[k] \notin {Raises, ""}}}

\* C16: a scrape call in which the sort click failed still runs the
\* pagination loop afterwards and returns what the loop harvested, and keeps
\* the distribution that was read before.
C16_SortFailureStillHarvests ==
    ("sort" \in failed /\ Returned) =>
        /\ trail = Stages
        /\ product.reviews = all_reviews
        /\ product.review_ratings = all_ratings
        /\ product.review_rating_distribution =
              GetReviewRatingDistribution(panelRead[1])

\* C17: the distribution of the record holds exactly the star values of the
\* panel positions that can be read, whichever positions are missing.
C17_DistributionEntriesIndependent ==
    (product # NoProduct /\ panelRead # <<>>) =>
        product.review_rating_distribution = ShownDistribution

\* ------------------------------------------- claims on the per-review pairs
\* The rating a phrase shows: the number after the scale marker, without the
\* unit; nothing for a phrase without the marker.
RatingShown(phrase) ==
    IF phrase = PhraseRated4 \/ phrase = PhraseTwice THEN <<"4">> ELSE <<>>

\* The (text, rating) pairs of the items that hold both elements, in order.
PairsShown(items) ==
    LET both == SelectSeq(items, LAMBDA it : it.textEl /\ it.ratingEl)
    IN  [reviews |-> [i \in 1..Len(both) |-> both[i].text],
         ratings |-> [i \in 1..Len(both) |-> RatingShown(both[i].phrase)]]

RECURSIVE PairsShownUpTo(_)
PairsShownUpTo(k) ==
    IF k = 0 THEN [reviews |-> <<>>, ratings |-> <<>>]
    ELSE LET before == PairsShownUpTo(k - 1)
             here == IF site[k].list THEN PairsShown(site[k].items)
                     ELSE [reviews |-> <<>>, ratings |-> <<>>]
         IN  [reviews |-> before.reviews \o here.reviews,
              ratings |-> before.ratings \o here.ratings]

\* C18: the page shown yields one (text, rating) pair for each item that holds
\* both elements, in item order, the rating being the number the phrase
\* shows or empty for an unrecognised phrase; an item without text or rating
\* element is left out and nothing else changes.  The accumulators hold these
\* pairs of the pages extracted so far, up to the maximum.
C18_PairsKeptTogether ==
    /\ site[pageIdx].list =>
          ExtractReviewsFromPage(site[pageIdx]) = PairsShown(site[pageIdx].items)
    /\ pc \in {"pg_nav", "pg_return"} =>
          /\ all_reviews = Take(PairsShownUpTo(extractions).reviews, max_reviews)
          /\ all_ratings = Take(PairsShownUpTo(extractions).ratings, max_reviews)

\* C18 witness: the first page listed an item without rating element before
\* a rated one, the second an item with an unrecognised phrase; the pairs
\* accumulated are (a, 4) and (b, empty).
C18_Witness ==
    /\ pc = "pg_return"
    /\ extractions = 2
    /\ site[1].items = <<ItemNoRating, ItemRated>>
    /\ site[2].items = <<ItemUnparsed>>
    /\ all_reviews = <<"a", "b">>
    /\ all_ratings = <<<<"4">>, <<>>>>

\* ------------------------------------------------ claims on the navigation
\* n is 10, 20, 30, ...
ExactMultipleOfTen(n) == \E k \in 1..n : n = 10 * k

\* C19: in every iteration that read a page number n, exactly one control
\* was queried: the next-block control when n is an exact multiple of 10,
\* the immediate-next control otherwise; the control held is one queried
\* for a page number read.
C19_ControlFromPageNumber ==
    /\ \A e \in navLog :
          /\ e.n >= 1
          /\ e.queried = {IF ExactMultipleOfTen(e.n) THEN "next_block"
                          ELSE "immediate_next"}
    /\ (control # "none" /\ pc \in {"pg_extract", "pg_nav", "pg_settle", "pg_return"}) =>
          \E e \in navLog : e.queried = {control}

\* C19 witness: page number 10 selected the next-block control, and on the
\* page it led to page number 11 selected the immediate-next control.
C19_Witness ==
    /\ navLog = {[n |-> 10, queried |-> {"next_block"}],
                  [n |-> 11, queried |-> {"immediate_next"}]}
    /\ pageIdx = 2
    /\ control = "immediate_next"

\* ---------------------------------------------- claims on the review stage
\* The positions of the review stage, in the order of its text, with the
\* single terminal position (line 244) last.
StageRank(at) ==
    IF at = "s_tab" THEN 1
    ELSE IF at = "s_dist" THEN 2
    ELSE IF at = "s_sort" THEN 3
    ELSE IF at \in {"pg_enter", "pg_extract", "pg_nav", "pg_settle", "pg_return"}
         THEN 4
    ELSE 5

InReviewStage == StageRank(pc) < 5

\* C20: the stages are entered at most once each and in the order tab click,
\* distribution, sort, pagination; no step goes back to an earlier stage; the
\* stage is left only into its terminal position, never by an exception; and
\* every run that starts the stage reaches the terminal position.
C20_ReviewStageForwardOnly ==
    /\ [](IsPrefix(trail, Stages) /\ outcome # "raised" /\ exc = "none")
    /\ [][InReviewStage =>
            /\ StageRank(pc') >= StageRank(pc)
            /\ pc' \in {"s_tab", "s_dist", "s_sort", "pg_enter", "pg_extract",
                         "pg_nav", "pg_settle", "pg_return", "s_return"}]_vars
    /\ (pc = "s_tab" ~> pc = "s_return")

\* C20 witness: the tab click and the sort click failed, a navigation raised
\* in the loop, and the stage stands at its terminal position with every
\* stage entered once.
C20_Witness ==
    /\ pc = "s_return"
    /\ {"tab", "sort"} \subseteq failed
    /\ stop = "navError"
    /\ trail = Stages

\* ----------------------------------------------- claims on the termination
Max(a, b) == IF a > b THEN a ELSE b

\* C21: the pagination loop ends on every site, also on one whose pages and
\* next control never run out: an iteration either leaves the loop or adds at
\* least one review to the accumulator, so no more than max_reviews pages are
\* extracted, and none when max_reviews is zero or negative.
C21_LoopTerminates ==
    /\ [](extractions <= Max(max_reviews, 0))
    /\ [][pc = "pg_extract" =>
             \/ pc' = "pg_return"
             \/ pc' = "pg_nav" /\ Len(all_reviews') > Len(all_reviews)]_vars
    /\ (pc = "pg_enter" ~> pc = "pg_return")

\* The loop went round an endless site past its last page and was ended by
\* the maximum, at the extraction that reached it.
C21_Witness ==
    /\ endless
    /\ pc = "pg_return"
    /\ stop = "limit"
    /\ extractions = MaxRequested
    /\ max_reviews = MaxRequested
    /\ extractions > Len(site)

\* --------------------------------------------------- claims on the helpers
\* A lookup found an element that holds a text.
Found(t) == t # Raises /\ t # ""

\* C22: the price is the text of the discounted-price selector when that is
\* found and not empty, otherwise the text of the regular-price selector when
\* that is found and not empty, otherwise the empty text; _get_price returns a
\* value, and never raises, for every pair of lookup outcomes.
C22_TwoTierPrice ==
    pc = "h_price_done" =>
        /\ ret # Raises
        /\ Found(arg[1]) => ret = arg[1]
        /\ ~Found(arg[1]) /\ Found(arg[2]) => ret = arg[2]
        /\ ~Found(arg[1]) /\ ~Found(arg[2]) => ret = ""

\* The discounted price is there but empty and the regular price is returned.
C22_Witness ==
    /\ pc = "h_price_done"
    /\ arg = <<"", "12,000">>
    /\ ret = "12,000"

\* The attribute values in the order they are tried.
AttrsInOrder(img) == <<img.src, img.data_src, img.data_original, img.data_lazy>>

\* A value is not empty and has the piece "http".
Qualifies(v) == v # NoSrc /\ v # EmptyText /\ \E i \in 1..Len(v) : v[i] = "http"

\* C24: for every combination of absent, empty, relative and absolute values
\* of src, data-src, data-original and data-lazy, the URL resolved is the
\* first value in that order that is not empty and holds the absolute-URL
\* marker, and None when no value does; a value that is present but not
\* absolute does not keep a later one from being taken.
C24_FirstAbsoluteAttribute ==
    pc = "h_image_done" =>
        LET vals == AttrsInOrder(arg)
            good == {i \in 1..4 : Qualifies(vals[i])}
        IN  IF good = {} THEN ret = NoSrc
            ELSE \E i \in good : /\ \A j \in good : i <= j
                                  /\ ret = vals[i]

\* src holds a relative path, data-src the empty text, data-original nothing,
\* and the URL of data-lazy is resolved.
C24_Witness ==
    /\ pc = "h_image_done"
    /\ arg.src = Placeholder
    /\ arg.data_src = EmptyText
    /\ arg.data_original = NoSrc
    /\ ret = <<"http", "s://image.oliveyoung.co.kr/", "data-lazy">>

\* --------------------------------------------------- claims on the cookies
\* The cookies of cookies.json have been handed to the browsing context.
CookiesAdded ==
    /\ pc # "e_cookies"
    /\ cookieStore.exists
    /\ jar # <<>>

\* C25 as stated: every cookie added carries None, Lax or Strict as its
\* sameSite: no_restriction gives None, lax gives Lax, strict gives Strict,
\* every other value and a missing one give Lax.
C25_SameSiteAlwaysNormalised ==
    CookiesAdded =>
        /\ Len(jar) = Len(cookieStore.entries)
        /\ \A i \in 1..Len(jar) :
              LET given == cookieStore.entries[i].sameSite
              IN  /\ jar[i].sameSite \in {"None", "Lax", "Strict"}
                  /\ jar[i].sameSite = IF given = "no_restriction" THEN "None"
                                       ELSE IF given = "strict" THEN "Strict"
                                       ELSE "Lax"

\* C25, amended: no_restriction gives None, lax gives Lax, strict gives
\* Strict and every other value except 'unspecified' gives Lax; an entry
\* whose sameSite is missing or 'unspecified' is added without a sameSite.
C25_SameSiteNormalisedWhenGiven ==
    CookiesAdded =>
        /\ Len(jar) = Len(cookieStore.entries)
        /\ \A i \in 1..Len(jar) :
              LET given == cookieStore.entries[i].sameSite
              IN  /\ jar[i].sameSite \in {"None", "Lax", "Strict", Missing}
                  /\ jar[i].sameSite = IF given \in {Missing, "unspecified"} THEN Missing
                                       ELSE IF given = "no_restriction" THEN "None"
                                       ELSE IF given = "strict" THEN "Strict"
                                       ELSE "Lax"

\* A cookie with an unknown sameSite was added as Lax beside one without.
C25_Witness ==
    /\ CookiesAdded
    /\ Len(jar) = 2
    /\ cookieStore.entries[1].sameSite = "none"
    /\ jar[1].sameSite = "Lax"
    /\ cookieStore.entries[2].sameSite = Missing
    /\ jar[2].sameSite = Missing

\* An entry has name, value and domain.
WellFormed(c) == Missing \notin {c.name, c.value, c.domain}

\* C26: entries that lack name, value or domain are skipped and every
\* well-formed entry of the file is added to the context; a missing cookie
\* file adds nothing and is no error.
C26_MalformedEntriesSkipped ==
    pc = "e_stealth" =>
        /\ exc = "none"
        /\ ~cookieStore.exists => jar = <<>>
        /\ cookieStore.exists /\ cookieStore.json # "invalid" /\ "add_cookies" \notin failed =>
              LET kept == SelectSeq(cookieStore.entries, WellFormed)
              IN  /\ Len(jar) = Len(kept)
                  /\ \A i \in 1..Len(kept) :
                        /\ jar[i].name = kept[i].name
                        /\ jar[i].value = kept[i].value
                        /\ jar[i].domain = kept[i].domain

\* ------------------------------------------- claims on the order of set-up
\* page.goto has returned in the scrape call under way.
Navigated ==
    pc \in {"s_challenge", "s_settle", "s_name", "s_price", "s_rating", "s_count",
            "s_gallery", "s_tab", "s_dist", "s_sort", "pg_enter", "pg_extract",
            "pg_nav", "pg_settle", "pg_return", "s_return"}

\* The context holds a cookie for every well-formed entry of the file.
CookiesInjected ==
    \A i \in 1..Len(cookieStore.entries) :
        WellFormed(cookieStore.entries[i]) =>
            \E j \in 1..Len(jar) : jar[j].name = cookieStore.entries[i].name

\* C27: when the target URL is navigated to, the cookies of an existing
\* cookie file have been injected and the masking script has been installed;
\* no field, gallery or review extraction is made before the navigation and
\* the wait for the challenge screen are over.
C27_SetupBeforeNavigation ==
    /\ Navigated => masked
    /\ Navigated /\ cookieStore.exists => CookiesInjected
    /\ trail # <<>> => touched /\ pc \notin {"s_goto", "s_challenge", "s_settle"}

\* ----------------------------------------- claims on concurrent sessions
\* C28: two scrapers that run interleaved on different URLs do not affect
\* each other: the record each returns holds data of its own page only, and
\* every diagnostic file a scraper wrote holds, when that scraper is done,
\* what it would hold had the scraper run alone: the capture of its own page.
C28_SessionsIndependent ==
    \A p \in Scrapers :
        procs[p].at = "done" =>
            /\ procs[p].detail_images \in {<<>>, <<PageOf(p)>>}
            /\ \A f \in procs[p].wrote : files[f] = PageOf(p)

====
